---- MODULE Spec2Model ----
(***************************************************************************)
(* Model of DocumentIntelligenceService (documentIntelligenceService.js):  *)
(* one upload request travelling through extractData, callAIFoundryAPI and *)
(* processWithLocalLogic.  Strings are sequences of tokens, so that string *)
(* concatenation is \o and "contains" is a contiguous sub-sequence.         *)
(***************************************************************************)
EXTENDS Integers, Sequences, FiniteSets, TLC

VARIABLES
    apiKey, apiUrl, deploymentName, apiVersion, \* this.* set by the constructor
    file,           \* the multer file object: originalname, path
    pdfContent,     \* what pdfParse finds in the temp document
    tempExists,     \* the temp document exists on disk
    outputs,        \* names of the files under outputs/
    now,            \* Date.now()
    faults,         \* file-system calls that have failed on a present file
    pc,             \* position of the request inside extractData
    mode,           \* which branch of extractData is running
    pdfText,        \* pdfData.text inside callAIFoundryAPI
    candidates,     \* deploymentOptions x apiVersions, in loop order
    attemptCount,   \* attemptCount of the probe loop
    lastError,      \* lastError of the probe loop (<<>> is null)
    inFlight,       \* axios.post calls not yet settled
    extractedData,  \* the extractedData under construction (<<>> is none)
    aiError,        \* aiError.message caught by extractData (<<>> is none)
    failure,        \* error.message caught by extractData's outer catch
    outcome,        \* what the caller of extractData receives
    calls,          \* history: the (deployment, apiVersion) of every axios.post
    invoked,        \* history: the service methods entered
    writes,         \* history: successful fs.writeFileSync calls
    deletes,        \* history: successful fs.unlinkSync calls
    lastSettled,    \* history: how each loop iteration ended, most recent last
    fn,             \* the method called on its own ("none": extractData)
    args,           \* the arguments of that call
    ret             \* what that call returned (<<>> before it returns)

vars == <<apiKey, apiUrl, deploymentName, apiVersion, file, pdfContent,
          tempExists, outputs, now, faults, pc, mode, pdfText, candidates,
          attemptCount, lastError, inFlight, extractedData,
          aiError, failure, outcome, calls, invoked, writes, deletes,
          lastSettled, fn, args, ret>>

-----------------------------------------------------------------------------
(* Bounds *)

\* Date.now() runs from 0 to MaxTime.
MaxTime == 1

\* At most MaxFaults file-system calls fail although the file is there
\* (EPERM, ENOSPC, EIO).
MaxFaults == 2

\* The long addresses have up to MaxExtra characters more than the address
\* limit of parseDocumentFields.
MaxExtra == 2

\* The texts of extractGenericTables have up to MaxLines lines.
MaxLines == 6

-----------------------------------------------------------------------------
(* JavaScript values *)

Undefined == "<undefined>"

\* !x for the values an environment variable or a path can take
Truthy(v) == v # Undefined /\ v # ""

\* `${v}` in a template literal
Render(v) == IF v = Undefined THEN "undefined" ELSE v

\* s.includes(t) on token sequences
Contains(s, t) ==
    \E i \in 0..(Len(s) - Len(t)) :
        \A j \in 1..Len(t) : s[i + j] = t[j]

IsWhitespace(c) == c \in {" ", "\n", "\t"}

RECURSIVE TrimStart(_)
TrimStart(s) ==
    IF s = <<>> THEN <<>>
    ELSE IF IsWhitespace(Head(s)) THEN TrimStart(Tail(s))
    ELSE s

RECURSIVE TrimEnd(_)
TrimEnd(s) ==
    IF s = <<>> THEN <<>>
    ELSE IF IsWhitespace(s[Len(s)]) THEN TrimEnd(SubSeq(s, 1, Len(s) - 1))
    ELSE s

\* String.prototype.trim
Trim(s) == TrimEnd(TrimStart(s))

-----------------------------------------------------------------------------
(* Errors.  An Error is its message plus, for an axios HTTP error, the     *)
(* response's status and statusText.                                        *)

PlainError(msg) == [status |-> Undefined, statusText |-> Undefined, message |-> msg]

HttpError(status, statusText) ==
    [status |-> status, statusText |-> statusText,
     message |-> <<"Request failed with status code ", status>>]

\* What axios.post can reject with.
HttpFailures ==
    { HttpError("401", "Unauthorized"),
      HttpError("403", "Forbidden"),
      HttpError("404", "Not Found"),
      HttpError("500", ""),
      PlainError(<<"timeout of ", "30000", "ms exceeded">>),
      PlainError(<<"connect ECONNREFUSED">>) }

ReadMissingError == <<"ENOENT: no such file or directory, open">>
ReadFaultError == <<"EACCES: permission denied, open">>
WriteError == <<"ENOSPC: no space left on device, write">>
UnlinkError == <<"EPERM: operation not permitted, unlink">>
PdfParseError == <<"Invalid PDF structure">>
NoChoicesError == <<"Cannot read properties of undefined (reading '0')">>
NoContentError == <<"Cannot read properties of undefined (reading 'split')">>

EmptyDocumentMessage == <<"No text content found in PDF">>

\* error.response?.status === 401 || error.response?.status === 403
IsAuthStatusOnly401(status) == status = "401"

IsAuthStatus(status) == status = "401" \/ status = "403"

AuthenticationMessage(err) ==
    <<"Authentication failed", ": ", err.status, " ", Render(err.statusText),
      ". Please check your API key.">>

\* `${lastError?.response?.status} ${lastError?.response?.statusText || lastError?.message}`
LastErrorText(last) ==
    IF last = <<>> THEN <<"undefined", " ", "undefined">>
    ELSE <<Render(last[1].status), " ">> \o
         (IF Truthy(last[1].statusText) THEN <<last[1].statusText>>
          ELSE last[1].message)

ExhaustedMessageNoDetail(last) ==
    <<"All deployment/API version combinations failed.">>

ExhaustedMessage(last) ==
    <<"All deployment/API version combinations failed.", " Last error: ">>
        \o LastErrorText(last)

\* the catch that ends callAIFoundryAPI
WrapAIError(msg) == <<"AI Foundry API call failed: ">> \o msg

\* the throw that ends extractData
WrapExtractError(msg) == <<"Error extracting data: ">> \o msg

-----------------------------------------------------------------------------
(* Configuration and the candidate list *)

ApiKeys == {Undefined, "", "test-api-key"}
ApiUrls == {Undefined, "https://test-endpoint.openai.azure.com"}
DeploymentNames == {Undefined, "gpt-4o-document-intelligence"}
ApiVersionValues == {Undefined, "2025-01-01-preview"}

\* !this.apiKey || !this.apiUrl
ConfiguredKeyOnly(key, url) == Truthy(key)

Configured(key, url) == Truthy(key) /\ Truthy(url)

deploymentOptions ==
    <<"gpt-4o", "gpt-4o-mini", "gpt-4", "gpt-4-turbo", "gpt-35-turbo",
      "gpt-35-turbo-16k", "text-davinci-003">>

apiVersions ==
    <<"2024-08-01-preview", "2024-02-15-preview", "2023-12-01-preview",
      "2023-05-15">>

\* for (deployment of ds) for (apiVersion of vs): the pairs in loop order
Product(ds, vs) ==
    [k \in 1..(Len(ds) * Len(vs)) |->
        [deployment |-> ds[((k - 1) \div Len(vs)) + 1],
         apiVersion |-> vs[((k - 1) % Len(vs)) + 1]]]

\* if (this.deploymentName && this.apiVersion) ... else ...
ProbePairsIgnoringFixed(dep, ver) == Product(deploymentOptions, apiVersions)

\* a single configured value narrowing its own list
ProbePairsUsingEither(dep, ver) ==
    Product(IF Truthy(dep) THEN <<dep>> ELSE deploymentOptions,
            IF Truthy(ver) THEN <<ver>> ELSE apiVersions)

ProbePairs(dep, ver) ==
    IF Truthy(dep) /\ Truthy(ver)
    THEN Product(<<dep>>, <<ver>>)
    ELSE Product(deploymentOptions, apiVersions)

-----------------------------------------------------------------------------
(* The uploaded document *)

Files ==
    { [originalname |-> "test-document.pdf", path |-> p] :
        p \in {Undefined, "/temp/test-document.pdf"} }

PdfDocs ==
    { [corrupt |-> TRUE, text |-> <<>>],
      [corrupt |-> FALSE, text |-> <<>>],
      [corrupt |-> FALSE, text |-> <<" ", "\n", "\t">>],
      [corrupt |-> FALSE, text |-> <<" ", "PO No.: ", "PR028561", "\n">>] }

\* !pdfText || pdfText.trim().length === 0
IsEmptyTextNoTrim(text) == text = <<>>

IsEmptyText(text) == text = <<>> \/ Len(Trim(text)) = 0

\* `extracted_${Date.now()}_${file.originalname}.json`
OutputFileName(t, f) == <<"extracted_", t, "_", f.originalname, ".json">>

-----------------------------------------------------------------------------
(* Characters.  The methods below receive their text character by          *)
(* character: a string is a sequence of one-character strings.             *)

Digits == {"0", "1", "2", "3", "4", "5", "6", "7", "8", "9"}

UpperCase == <<"A", "B", "C", "D", "E", "F", "G", "H", "I", "J", "K", "L", "M",
               "N", "O", "P", "Q", "R", "S", "T", "U", "V", "W", "X", "Y", "Z">>

LowerCase == <<"a", "b", "c", "d", "e", "f", "g", "h", "i", "j", "k", "l", "m",
               "n", "o", "p", "q", "r", "s", "t", "u", "v", "w", "x", "y", "z">>

UpperLetters == {UpperCase[i] : i \in DOMAIN UpperCase}

LowerLetters == {LowerCase[i] : i \in DOMAIN LowerCase}

Letters == UpperLetters \cup LowerLetters

\* the character ` (U+0060), which no string of this language can hold
Backtick == "<backtick>"

\* \s
Whitespace == {" ", "\n", "\t"}

\* \w
WordChars == Letters \cup Digits \cup {"_"}

toUpperCaseChar(c) ==
    IF c \in LowerLetters
    THEN UpperCase[CHOOSE i \in DOMAIN LowerCase : LowerCase[i] = c]
    ELSE c

toLowerCaseChar(c) ==
    IF c \in UpperLetters
    THEN LowerCase[CHOOSE i \in DOMAIN UpperCase : UpperCase[i] = c]
    ELSE c

\* String.prototype.toLowerCase
toLowerCase(s) == [i \in 1..Len(s) |-> toLowerCaseChar(s[i])]

-----------------------------------------------------------------------------
(* Regular expressions, as the JavaScript engine runs them: a backtracking *)
(* matcher over the syntax tree of the pattern.  Run takes the nodes still *)
(* to be matched, the text, the position, the groups captured so far and   *)
(* the flags (a set of flag letters), and answers the first match in       *)
(* backtracking order.                                                      *)

Inf == -1

Ch(set) == [t |-> "set", s |-> set, neg |-> FALSE]
NotCh(set) == [t |-> "set", s |-> set, neg |-> TRUE]
Cat(rs) == [t |-> "cat", rs |-> rs]
Lit(str) == Cat([i \in 1..Len(str) |-> Ch({str[i]})])
Alt(rs) == [t |-> "alt", rs |-> rs]
Rep(r, min, max) == [t |-> "rep", r |-> r, min |-> min, max |-> max, greedy |-> TRUE]
Lazy(r, min, max) == [t |-> "rep", r |-> r, min |-> min, max |-> max, greedy |-> FALSE]
Star(r) == Rep(r, 0, Inf)
Plus(r) == Rep(r, 1, Inf)
Opt(r) == Rep(r, 0, 1)
Cap(g, r) == [t |-> "cap", g |-> g, r |-> r]
Look(r) == [t |-> "look", r |-> r]
Bol == [t |-> "bol"]
Eol == [t |-> "eol"]
WordB == [t |-> "wordb"]

\* the capture groups of a match (no pattern has more than two): an unset
\* group is <<>> and a set one is <<its text>>
NoGroups == <<<<>>, <<>>>>

\* null, the result of a failed match
NoMatch == [ok |-> FALSE, from |-> 0, to |-> 0, groups |-> NoGroups]

InClass(c, n, fl) ==
    LET hit == IF "i" \in fl
               THEN \/ c \in n.s
                    \/ toUpperCaseChar(c) \in n.s
                    \/ toLowerCaseChar(c) \in n.s
               ELSE c \in n.s
    IN  hit # n.neg

IsWordChar(s, i) ==
    /\ i >= 1
    /\ i <= Len(s)
    /\ s[i] \in WordChars

\* how many characters from position i on a repeated character class takes
\* at most
Span(s, i, n, fl) ==
    LET room == IF n.max = Inf \/ n.max > Len(s) - i + 1
                THEN Len(s) - i + 1
                ELSE n.max
    IN  CHOOSE j \in 0..room :
            /\ \A k \in i..(i + j - 1) : InClass(s[k], n.r, fl)
            /\ j = room \/ ~InClass(s[i + j], n.r, fl)

RECURSIVE Run(_, _, _, _, _)
Run(k, s, i, groups, fl) ==
    IF Len(k) = 0 THEN [ok |-> TRUE, from |-> 0, to |-> i, groups |-> groups]
    ELSE
    LET n == Head(k)
        rest == Tail(k)
    IN  CASE n.t = "set" ->
               IF i <= Len(s) /\ InClass(s[i], n, fl)
               THEN Run(rest, s, i + 1, groups, fl)
               ELSE NoMatch
          [] n.t = "cat" -> Run(n.rs \o rest, s, i, groups, fl)
          [] n.t = "alt" ->
               IF Len(n.rs) = 0 THEN NoMatch
               ELSE LET r == Run(<<Head(n.rs)>> \o rest, s, i, groups, fl)
                    IN  IF r.ok THEN r
                        ELSE Run(<<Alt(Tail(n.rs))>> \o rest, s, i, groups, fl)
          [] n.t = "rep" /\ n.r.t = "set" ->
               \* a repeated character class: the longest (greedy) or the
               \* shortest (lazy) length after which the rest matches
               LET span == Span(s, i, n, fl)
                   tries == {[len |-> j, r |-> Run(rest, s, i + j, groups, fl)] :
                                j \in n.min..span}
                   hits == {x \in tries : x.r.ok}
               IN  IF hits = {} THEN NoMatch
                   ELSE (CHOOSE x \in hits : \A y \in hits :
                            IF n.greedy THEN y.len <= x.len ELSE x.len <= y.len).r
          [] n.t = "rep" /\ n.r.t # "set" ->
               LET again == [n EXCEPT !.min = IF @ > 0 THEN @ - 1 ELSE 0,
                                      !.max = IF @ > 0 THEN @ - 1 ELSE @]
                   iter == Run(<<n.r, again>> \o rest, s, i, groups, fl)
                   skip == Run(rest, s, i, groups, fl)
               IN  IF n.min > 0 THEN iter
                   ELSE IF n.max = 0 THEN skip
                   ELSE IF n.greedy THEN (IF iter.ok THEN iter ELSE skip)
                   ELSE (IF skip.ok THEN skip ELSE iter)
          [] n.t = "cap" ->
               Run(<<n.r, [t |-> "capend", g |-> n.g, at |-> i]>> \o rest,
                   s, i, groups, fl)
          [] n.t = "capend" ->
               Run(rest, s, i,
                   [groups EXCEPT ![n.g] = <<SubSeq(s, n.at, i - 1)>>], fl)
          [] n.t = "look" ->
               IF Run(<<n.r>>, s, i, groups, fl).ok
               THEN Run(rest, s, i, groups, fl)
               ELSE NoMatch
          [] n.t = "bol" ->
               IF i = 1 \/ ("m" \in fl /\ s[i - 1] = "\n")
               THEN Run(rest, s, i, groups, fl)
               ELSE NoMatch
          [] n.t = "eol" ->
               IF i = Len(s) + 1 \/ ("m" \in fl /\ s[i] = "\n")
               THEN Run(rest, s, i, groups, fl)
               ELSE NoMatch
          [] n.t = "wordb" ->
               IF IsWordChar(s, i - 1) # IsWordChar(s, i)
               THEN Run(rest, s, i, groups, fl)
               ELSE NoMatch

\* String.prototype.match with a non-global pattern [re, fl]: the leftmost
\* match, or null
match(s, p) ==
    LET leftmost(hits) ==
            IF hits = {} THEN NoMatch
            ELSE CHOOSE x \in hits : \A y \in hits : x.from <= y.from
    IN  leftmost({x \in {[Run(<<p.re>>, s, i, NoGroups, p.fl) EXCEPT !.from = i] :
                              i \in 1..(Len(s) + 1)} : x.ok})

\* match[0]
Matched(s, m) == SubSeq(s, m.from, m.to - 1)

\* RegExp.prototype.test
test(s, p) == match(s, p).ok

-----------------------------------------------------------------------------
(* Methods of String *)

\* String.prototype.split with a one-character separator
splitOn(s, c) ==
    LET cut(cuts, k) ==
            IF k = 0 THEN 0
            ELSE IF k > Cardinality(cuts) THEN Len(s) + 1
            ELSE CHOOSE i \in cuts : Cardinality({j \in cuts : j < i}) = k - 1
        pieces(cuts) ==
            [k \in 1..(Cardinality(cuts) + 1) |->
                SubSeq(s, cut(cuts, k - 1) + 1, cut(cuts, k) - 1)]
    IN  pieces({i \in 1..Len(s) : s[i] = c})

\* String.prototype.split with a regular expression that has no groups and
\* matches no empty string
RECURSIVE split(_, _)
split(s, p) ==
    LET around(m) ==
            IF ~m.ok \/ m.to = m.from THEN <<s>>
            ELSE <<SubSeq(s, 1, m.from - 1)>> \o split(SubSeq(s, m.to, Len(s)), p)
    IN  around(match(s, p))

\* parseInt of a string of decimal digits
parseInt(s) ==
    LET digit(c) == CHOOSE v \in 0..9 :
                       <<"0", "1", "2", "3", "4", "5", "6", "7", "8", "9">>[v + 1] = c
        upTo[k \in 0..Len(s)] ==
            IF k = 0 THEN 0 ELSE upTo[k - 1] * 10 + digit(s[k])
    IN  upTo[Len(s)]

\* String.prototype.replace(p, '') with a /g regular expression that matches no
\* empty string
RECURSIVE replaceAll(_, _)
replaceAll(s, p) ==
    LET without(m) ==
            IF ~m.ok \/ m.to = m.from THEN s
            ELSE SubSeq(s, 1, m.from - 1) \o replaceAll(SubSeq(s, m.to, Len(s)), p)
    IN  without(match(s, p))

\* the characters of s as one string: the keys and values of the fields are
\* strings compared as a whole
ToStr(s) ==
    LET upTo[k \in 0..Len(s)] == IF k = 0 THEN "" ELSE upTo[k - 1] \o s[k]
    IN  upTo[Len(s)]

-----------------------------------------------------------------------------
(* The AI response and its conversion to fields.  Confidences are in       *)
(* hundredths: 90 is 0.90.                                                  *)

\* JSON.parse of the value that starts at position i0 of s (after whitespace):
\* the value and the position after it.  Strings have no escape sequences and
\* numbers are unsigned integers.  A string is [value |-> it], a number
\* [number |-> it], an object [object |-> its entries in order], anything else
\* (true, false, null, an array) [other |-> its kind]; an entry is its key
\* together with its value.
RECURSIVE parseValue(_, _)
RECURSIVE parseItems(_, _, _, _)

parseValue(s, i0) ==
    LET rest == {j \in i0..Len(s) : s[j] \notin Whitespace}
        i == IF rest = {} THEN Len(s) + 1
             ELSE CHOOSE j \in rest : \A h \in rest : j <= h
        fail == [ok |-> FALSE, v |-> <<>>, at |-> i]
        literal(word, kind) ==
            IF SubSeq(s, i, i + Len(word) - 1) = word
            THEN [ok |-> TRUE, v |-> [other |-> kind], at |-> i + Len(word)]
            ELSE fail
    IN  IF i > Len(s) THEN fail
        ELSE IF s[i] = "{" THEN parseItems(s, i + 1, "}", <<>>)
        ELSE IF s[i] = "["
        THEN LET items == parseItems(s, i + 1, "]", <<>>)
             IN  IF items.ok
                 THEN [ok |-> TRUE, v |-> [other |-> "array"], at |-> items.at]
                 ELSE fail
        ELSE IF s[i] = "\""
        THEN LET quotes == {j \in (i + 1)..Len(s) : s[j] = "\""}
                 j == CHOOSE q \in quotes : \A h \in quotes : q <= h
             IN  IF quotes = {} THEN fail
                 ELSE IF \E k \in (i + 1)..(j - 1) : s[k] \in {"\\", "\n", "\t"}
                 THEN fail
                 ELSE [ok |-> TRUE,
                       v |-> [value |-> ToStr(SubSeq(s, i + 1, j - 1))],
                       at |-> j + 1]
        ELSE IF s[i] \in Digits
        THEN LET others == {j \in i..Len(s) : s[j] \notin Digits}
                 j == IF others = {} THEN Len(s) + 1
                      ELSE CHOOSE q \in others : \A h \in others : q <= h
             IN  IF (s[i] = "0" /\ j > i + 1)
                    \/ (j <= Len(s) /\ s[j] \in {".", "e", "E"})
                 THEN fail
                 ELSE [ok |-> TRUE,
                       v |-> [number |-> parseInt(SubSeq(s, i, j - 1))],
                       at |-> j]
        ELSE IF s[i] = "t" THEN literal(<<"t", "r", "u", "e">>, "boolean")
        ELSE IF s[i] = "f" THEN literal(<<"f", "a", "l", "s", "e">>, "boolean")
        ELSE IF s[i] = "n" THEN literal(<<"n", "u", "l", "l">>, "null")
        ELSE fail

\* the members of an object (closer "}") or the elements of an array (closer
\* "]") from position i0 on, after the entries of acc
parseItems(s, i0, closer, acc) ==
    LET after(p) ==
            LET rest == {j \in p..Len(s) : s[j] \notin Whitespace}
            IN  IF rest = {} THEN Len(s) + 1
                ELSE CHOOSE j \in rest : \A h \in rest : j <= h
        i == after(i0)
        fail == [ok |-> FALSE, v |-> <<>>, at |-> i]
        name == IF closer = "}" THEN parseValue(s, i)
                ELSE [ok |-> TRUE, v |-> [value |-> ""], at |-> i]
        colon == after(name.at)
        item == parseValue(s, IF closer = "}" THEN colon + 1 ELSE i)
        next == after(item.at)
        entry ==
            IF "value" \in DOMAIN item.v
            THEN [key |-> name.v.value, value |-> item.v.value]
            ELSE IF "number" \in DOMAIN item.v
            THEN [key |-> name.v.value, number |-> item.v.number]
            ELSE IF "object" \in DOMAIN item.v
            THEN [key |-> name.v.value, object |-> item.v.object]
            ELSE [key |-> name.v.value, other |-> item.v.other]
    IN  IF i > Len(s) THEN fail
        ELSE IF s[i] = closer /\ acc = <<>>
        THEN [ok |-> TRUE, v |-> [object |-> <<>>], at |-> i + 1]
        ELSE IF ~name.ok \/ "value" \notin DOMAIN name.v THEN fail
        ELSE IF closer = "}" /\ (colon > Len(s) \/ s[colon] # ":") THEN fail
        ELSE IF ~item.ok \/ next > Len(s) THEN fail
        ELSE IF s[next] = "," THEN parseItems(s, next + 1, closer, Append(acc, entry))
        ELSE IF s[next] = closer
        THEN [ok |-> TRUE, v |-> [object |-> Append(acc, entry)], at |-> next + 1]
        ELSE fail

fieldMappings ==
    [k \in {"vendor", "vendorName", "vendor_name"} |-> "Vendor Name"] @@
    [k \in {"vendorAddress", "vendor_address"} |-> "Vendor Address"] @@
    [k \in {"shipToAddress", "ship_to_address", "shipping_address"} |-> "Ship To Address"] @@
    [k \in {"poNumber", "po_number", "purchaseOrder"} |-> "PO Number"] @@
    [k \in {"invoiceNumber", "invoice_number"} |-> "Invoice Number"] @@
    [k \in {"orderDate", "order_date", "date"} |-> "Order Date"] @@
    [k \in {"totalAmount", "total_amount", "total"} |-> "Total Amount"] @@
    [k \in {"subtotal", "sub_total"} |-> "Subtotal"] @@
    [k \in {"phone", "phoneNumber", "phone_number"} |-> "Phone Number"] @@
    [k \in {"fax", "faxNumber"} |-> "Fax Number"]

\* fieldMappings[key] || key, for any key
MappedKeyOfLeafOnly(fieldKey, key) ==
    IF key \in DOMAIN fieldMappings THEN fieldMappings[key] ELSE key

\* fieldMappings[fieldKey] || fieldMappings[key] || key
MappedKey(fieldKey, key) ==
    IF fieldKey \in DOMAIN fieldMappings THEN fieldMappings[fieldKey]
    ELSE IF key \in DOMAIN fieldMappings THEN fieldMappings[key]
    ELSE key

\* extractFromObject leaving out the leaves 'Not found' and 'N/A', as
\* parseAITextResponse does
RECURSIVE extractFromObjectWithoutSentinels(_, _)
extractFromObjectWithoutSentinels(obj, prefix) ==
    IF obj = <<>> THEN <<>>
    ELSE
        LET entry == Head(obj)
            fieldKey == IF prefix # "" THEN prefix \o "_" \o entry.key ELSE entry.key
        IN  (IF "object" \in DOMAIN entry
             THEN extractFromObjectWithoutSentinels(entry.object, fieldKey)
             ELSE IF "other" \in DOMAIN entry THEN <<>>
             ELSE IF "value" \in DOMAIN entry /\ entry.value \in {"N/A", "Not found"}
             THEN <<>>
             ELSE <<[key |-> MappedKey(fieldKey, entry.key),
                     value |-> IF "number" \in DOMAIN entry
                               THEN ToString(entry.number)
                               ELSE entry.value,
                     confidence |-> 90]>>)
            \o extractFromObjectWithoutSentinels(Tail(obj), prefix)

\* extractFromObject: obj is the entries of an object, in order
RECURSIVE extractFromObject(_, _)
extractFromObject(obj, prefix) ==
    IF obj = <<>> THEN <<>>
    ELSE
        LET entry == Head(obj)
            fieldKey == IF prefix # "" THEN prefix \o "_" \o entry.key ELSE entry.key
        IN  (IF "object" \in DOMAIN entry
             THEN extractFromObject(entry.object, fieldKey)
             ELSE IF "other" \in DOMAIN entry THEN <<>>
             ELSE <<[key |-> MappedKey(fieldKey, entry.key),
                     value |-> IF "number" \in DOMAIN entry
                               THEN ToString(entry.number)
                               ELSE entry.value,
                     confidence |-> 90]>>)
            \o extractFromObject(Tail(obj), prefix)

convertAIResponseToFields(aiData) == extractFromObject(aiData, "")

\* line.match(/^([^::\-]+)[:\-]\s*(.+)$/): key is match[1].trim(), value is
\* match[2].trim(), sep the separator matched; all empty without a match
TextLine(line) ==
    LET parts(m) ==
            IF m.ok
            THEN [key |-> ToStr(Trim(m.groups[1][1])),
                  sep |-> line[Len(m.groups[1][1]) + 1],
                  value |-> ToStr(Trim(m.groups[2][1]))]
            ELSE [key |-> "", sep |-> "", value |-> ""]
    IN  parts(match(line, [re |-> Cat(<<Bol, Cap(1, Plus(NotCh({":", "-"}))), Ch({":", "-"}), Star(Ch(Whitespace)), Cap(2, Plus(NotCh({"\n"}))), Eol>>), fl |-> {}]))

\* if (match) and then without the test of the sentinels
TextLineKeptWithSentinels(line) ==
    /\ line.sep \in {":", "-"}
    /\ line.key # ""
    /\ line.value # ""

\* if (match) and if (key && value && value !== 'N/A' && value !== 'Not found')
TextLineKept(line) ==
    /\ line.sep \in {":", "-"}
    /\ line.key # ""
    /\ line.value # ""
    /\ line.value # "N/A"
    /\ line.value # "Not found"

parseAITextResponse(aiText) ==
    LET fields(kept) ==
            [i \in 1..Len(kept) |->
                [key |-> kept[i].key, value |-> kept[i].value, confidence |-> 85]]
        matches(lines) == [k \in DOMAIN lines |-> TextLine(lines[k])]
    IN  fields(SelectSeq(matches(splitOn(aiText, "\n")), TextLineKept))

\* response.data of an HTTP 200: choices may be missing or empty, and the
\* content of the first one is missing, or a text: an object in JSON, fenced by
\* ``` or not, or no JSON at all.
NoContent == [present |-> FALSE, fenced |-> FALSE, json |-> FALSE,
              entries |-> <<>>, lines |-> <<>>, text |-> <<>>,
              extractedFields |-> <<>>]

\* the try/catch on aiContent: cleanedContent, JSON.parse (entries is what it
\* returns, lines is how the lines match when it throws) and extractedFields
ContentOf(aiContent) ==
    LET cleanedContent ==
            Trim(replaceAll(aiContent, \* /```json\n?|\n?```/g
                            [re |-> Alt(<<Cat(<<Lit(<<Backtick, Backtick, Backtick, "j", "s", "o", "n">>), Opt(Ch({"\n"}))>>), Cat(<<Opt(Ch({"\n"})), Lit(<<Backtick, Backtick, Backtick>>)>>)>>), fl |-> {}]))
        \* parsed is JSON.parse(cleanedContent), all of it read when it is JSON
        content(parsed, isJson, lines) ==
            [present |-> TRUE,
             fenced |-> Contains(aiContent, <<Backtick, Backtick, Backtick>>),
             json |-> isJson,
             entries |-> IF isJson THEN parsed.v.object ELSE <<>>,
             lines |-> IF isJson THEN <<>> ELSE lines,
             text |-> aiContent,
             extractedFields |->
                IF isJson THEN convertAIResponseToFields(parsed.v.object)
                ELSE parseAITextResponse(aiContent)]
        read(cleaned, parsed) ==
            content(parsed, parsed.ok /\ parsed.at = Len(cleaned) + 1,
                    [k \in DOMAIN splitOn(aiContent, "\n") |->
                        TextLine(splitOn(aiContent, "\n")[k])])
    IN  read(cleanedContent, parseValue(cleanedContent, 1))

ResponseBodies ==
    { [hasChoices |-> FALSE, choices |-> <<>>],
      [hasChoices |-> TRUE, choices |-> <<>>],
      [hasChoices |-> TRUE, choices |-> <<NoContent>>],
      \* ```json\n{"vendorName":"Acme LLC"}\n```
      [hasChoices |-> TRUE, choices |-> <<ContentOf(
          <<Backtick, Backtick, Backtick, "j", "s", "o", "n", "\n", "{", "\"", "v", "e",
            "n", "d", "o", "r", "N", "a", "m", "e", "\"", ":", "\"", "A",
            "c", "m", "e", " ", "L", "L", "C", "\"", "}", "\n", Backtick, Backtick,
            Backtick>>)>>],
      \* {"poNumber":"123","carrier":"UPS"}
      [hasChoices |-> TRUE, choices |-> <<ContentOf(
          <<"{", "\"", "p", "o", "N", "u", "m", "b", "e", "r", "\"", ":",
            "\"", "1", "2", "3", "\"", ",", "\"", "c", "a", "r", "r", "i",
            "e", "r", "\"", ":", "\"", "U", "P", "S", "\"", "}">>)>>],
      \* Vendor: Acme LLC\nTotal - Not found\nFax: N/A\nThank you\n : none\nNotes:  \nPO Number - ABC123
      [hasChoices |-> TRUE, choices |-> <<ContentOf(
          <<"V", "e", "n", "d", "o", "r", ":", " ", "A", "c", "m", "e",
            " ", "L", "L", "C", "\n", "T", "o", "t", "a", "l", " ", "-",
            " ", "N", "o", "t", " ", "f", "o", "u", "n", "d", "\n", "F",
            "a", "x", ":", " ", "N", "/", "A", "\n", "T", "h", "a", "n",
            "k", " ", "y", "o", "u", "\n", " ", ":", " ", "n", "o", "n",
            "e", "\n", "N", "o", "t", "e", "s", ":", " ", " ", "\n", "P",
            "O", " ", "N", "u", "m", "b", "e", "r", " ", "-", " ", "A",
            "B", "C", "1", "2", "3">>)>>],
      \* Invalid JSON: {vendorName: "Test", invalid syntax}
      [hasChoices |-> TRUE, choices |-> <<ContentOf(
          <<"I", "n", "v", "a", "l", "i", "d", " ", "J", "S", "O", "N",
            ":", " ", "{", "v", "e", "n", "d", "o", "r", "N", "a", "m",
            "e", ":", " ", "\"", "T", "e", "s", "t", "\"", ",", " ", "i",
            "n", "v", "a", "l", "i", "d", " ", "s", "y", "n", "t", "a",
            "x", "}">>)>>],
      \* {"vendor":"Acme","vendorName":"Acme LLC"}
      [hasChoices |-> TRUE, choices |-> <<ContentOf(
          <<"{", "\"", "v", "e", "n", "d", "o", "r", "\"", ":", "\"", "A",
            "c", "m", "e", "\"", ",", "\"", "v", "e", "n", "d", "o", "r",
            "N", "a", "m", "e", "\"", ":", "\"", "A", "c", "m", "e", " ",
            "L", "L", "C", "\"", "}">>)>>],
      \* {"vendorName":"Not found","poNumber":"PO123"}
      [hasChoices |-> TRUE, choices |-> <<ContentOf(
          <<"{", "\"", "v", "e", "n", "d", "o", "r", "N", "a", "m", "e",
            "\"", ":", "\"", "N", "o", "t", " ", "f", "o", "u", "n", "d",
            "\"", ",", "\"", "p", "o", "N", "u", "m", "b", "e", "r", "\"",
            ":", "\"", "P", "O", "1", "2", "3", "\"", "}">>)>>] }

\* response.data.choices[0]?.message?.content
AIContentOf(body) ==
    IF Len(body.choices) = 0 THEN NoContent ELSE body.choices[1]

\* the try/catch around JSON.parse: which fields the response yields
FieldsOfContent(content) == content.extractedFields

\* the extractedData object callAIFoundryAPI builds
AIExtractedData(f, content, pair) ==
    [fileName |-> f.originalname,
     keyValuePairs |-> FieldsOfContent(content),
     aiResponse |-> content,
     aiParsedData |-> IF content.json THEN content.entries ELSE <<>>,
     deployment |-> pair.deployment,
     apiVersion |-> pair.apiVersion,
     processingMethod |-> "Azure OpenAI",
     outputFile |-> <<>>]

\* processWithLocalLogic recording the method of the AI path
LocalExtractedDataAsAI(f) ==
    [fileName |-> f.originalname,
     apiVersion |-> "2024-02-29-preview",
     processingMethod |-> "Azure OpenAI",
     outputFile |-> <<>>]

\* the extractedData object processWithLocalLogic builds
LocalExtractedData(f) ==
    [fileName |-> f.originalname,
     apiVersion |-> "2024-02-29-preview",
     processingMethod |-> "Local Pattern Matching",
     outputFile |-> <<>>]

-----------------------------------------------------------------------------
(* What extractData hands to its caller *)

Pending ==
    [kind |-> "pending", success |-> FALSE, message |-> <<>>,
     outputFile |-> <<>>, data |-> <<>>, aiErrorDetails |-> <<>>]

Raised(msg) ==
    [kind |-> "raised", success |-> FALSE, message |-> msg,
     outputFile |-> <<>>, data |-> <<>>, aiErrorDetails |-> <<>>]

LocalOnlyResult(data) ==
    [kind |-> "returned", success |-> TRUE,
     message |-> <<"Document processed successfully with ", "local processing",
                   " (", "AI Foundry not configured", ")">>,
     outputFile |-> data.outputFile, data |-> <<data>>,
     aiErrorDetails |-> <<>>]

AISuccessResultLocalTag(data) == LocalOnlyResult(data)

AISuccessResult(data) ==
    [kind |-> "returned", success |-> TRUE,
     message |-> <<"Document processed successfully with ", "AI Foundry">>,
     outputFile |-> data.outputFile, data |-> <<data>>,
     aiErrorDetails |-> <<>>]

FallbackResultNoDetails(data, err, t) ==
    [kind |-> "returned", success |-> TRUE,
     message |-> <<"Document processed successfully with ", "local processing">>,
     outputFile |-> data.outputFile, data |-> <<data>>,
     aiErrorDetails |-> <<>>]

FallbackResult(data, err, t) ==
    [kind |-> "returned", success |-> TRUE,
     message |-> <<"Document processed successfully with ", "local processing",
                   " (", "AI Foundry failed: ">> \o err \o <<")">>,
     outputFile |-> data.outputFile, data |-> <<data>>,
     aiErrorDetails |-> <<[error |-> err, timestamp |-> t, fallbackUsed |-> TRUE]>>]

-----------------------------------------------------------------------------
(* Initial state: the service has been constructed from the environment    *)
(* and multer has staged one upload.                                        *)

Init ==
    /\ apiKey \in ApiKeys
    /\ apiUrl \in ApiUrls
    /\ deploymentName \in DeploymentNames
    /\ apiVersion \in ApiVersionValues
    /\ file \in Files
    /\ pdfContent \in PdfDocs
    /\ tempExists = Truthy(file.path)
    /\ outputs = {}
    /\ now = 0
    /\ faults = 0
    /\ pc = "start"
    /\ mode = "none"
    /\ pdfText = <<>>
    /\ candidates = <<>>
    /\ attemptCount = 0
    /\ lastError = <<>>
    /\ inFlight = 0
    /\ extractedData = <<>>
    /\ aiError = <<>>
    /\ failure = <<>>
    /\ outcome = Pending
    /\ calls = <<>>
    /\ invoked = {}
    /\ writes = 0
    /\ deletes = 0
    /\ lastSettled = <<>>
    /\ fn = "none"
    /\ args = <<>>
    /\ ret = <<>>

callVars == <<fn, args, ret>>
requestVars == <<apiKey, apiUrl, deploymentName, apiVersion, file, pdfContent>>
probeVars == <<pdfText, candidates, attemptCount, lastError, inFlight, calls, lastSettled>>
diskVars == <<tempExists, outputs, writes, deletes>>

\* whether a file-system call on a present file goes through
FsOutcomes == IF faults < MaxFaults THEN BOOLEAN ELSE {TRUE}

-----------------------------------------------------------------------------
(* Control transfers shared by the steps *)

\* callAIFoundryAPI throws msg: its catch wraps it, extractData's inner catch
\* takes it and calls processWithLocalLogic.
AIFails(msg) ==
    /\ aiError' = WrapAIError(msg)
    /\ mode' = "fallback"
    /\ invoked' = invoked \cup {"processWithLocalLogic"}
    /\ pc' = "local_read"

\* the catch of one loop iteration; the iteration's extractedData is gone
IterationCatch(err) ==
    /\ lastError' = <<err>>
    /\ extractedData' = <<>>
    /\ IF IsAuthStatus(err.status)
       THEN AIFails(AuthenticationMessage(err))
       ELSE /\ pc' = "probe_loop"
            /\ UNCHANGED <<aiError, mode, invoked>>

\* an error reaches extractData's outer catch
Fails(msg) ==
    /\ failure' = msg
    /\ pc' = "cleanup"

\* `await axios.post(...)`: the loop is suspended until the call settles
AfterIssueNoAwait == "probe_loop"

AfterIssue == "awaiting"

\* fs.readFileSync(file.path) and fs.unlinkSync(file.path) need the file
TempDocPresent == Truthy(file.path) /\ tempExists

-----------------------------------------------------------------------------
(* extractData *)

ExtractData ==
    /\ pc = "start"
    /\ IF ~Configured(apiKey, apiUrl)
       THEN /\ mode' = "local_only"
            /\ invoked' = invoked \cup {"extractData", "processWithLocalLogic"}
            /\ pc' = "local_read"
       ELSE /\ mode' = "ai"
            /\ invoked' = invoked \cup {"extractData", "callAIFoundryAPI"}
            /\ pc' = "ai_read"
    /\ UNCHANGED <<callVars, requestVars, probeVars, diskVars, now, faults,
                   extractedData, aiError, failure, outcome>>

-----------------------------------------------------------------------------
(* callAIFoundryAPI *)

AIReadFile ==
    /\ pc = "ai_read"
    /\ IF ~TempDocPresent
       THEN AIFails(ReadMissingError) /\ UNCHANGED faults
       ELSE \E ok \in FsOutcomes :
               IF ok
               THEN /\ pc' = "ai_parse"
                    /\ UNCHANGED <<aiError, mode, invoked, faults>>
               ELSE /\ AIFails(ReadFaultError)
                    /\ faults' = faults + 1
    /\ UNCHANGED <<callVars, requestVars, probeVars, diskVars, now, extractedData,
                   failure, outcome>>

AIParsePdf ==
    /\ pc = "ai_parse"
    /\ IF pdfContent.corrupt
       THEN /\ AIFails(PdfParseError)
            /\ UNCHANGED <<pdfText, candidates>>
       ELSE IF IsEmptyText(pdfContent.text)
       THEN /\ AIFails(EmptyDocumentMessage)
            /\ pdfText' = pdfContent.text
            /\ UNCHANGED candidates
       ELSE /\ pdfText' = pdfContent.text
            /\ candidates' = ProbePairs(deploymentName, apiVersion)
            /\ pc' = "probe_loop"
            /\ UNCHANGED <<aiError, mode, invoked>>
    /\ UNCHANGED <<callVars, requestVars, attemptCount, lastError, inFlight, calls,
                   lastSettled, diskVars, now, faults, extractedData, failure,
                   outcome>>

IssueProbe ==
    /\ pc = "probe_loop"
    /\ attemptCount < Len(candidates)
    /\ attemptCount' = attemptCount + 1
    /\ calls' = Append(calls, candidates[attemptCount + 1])
    /\ inFlight' = inFlight + 1
    /\ pc' = AfterIssue
    /\ UNCHANGED <<callVars, requestVars, pdfText, candidates, lastError, lastSettled,
                   diskVars, now, faults, mode, extractedData, aiError,
                   failure, outcome, invoked>>

ProbeFails ==
    /\ pc = "awaiting"
    /\ inFlight > 0
    /\ \E err \in HttpFailures :
        /\ IterationCatch(err)
        /\ lastSettled' = <<[how |-> "http_error", error |-> err]>>
    /\ inFlight' = inFlight - 1
    /\ UNCHANGED <<callVars, requestVars, pdfText, candidates, attemptCount, calls,
                   diskVars, now, faults, failure, outcome>>

ProbeSucceeds ==
    /\ pc = "awaiting"
    /\ inFlight > 0
    /\ \E body \in ResponseBodies :
        IF ~body.hasChoices
        THEN /\ IterationCatch(PlainError(NoChoicesError))
             /\ lastSettled' = <<[how |-> "processing_error",
                                  error |-> PlainError(NoChoicesError)]>>
        ELSE IF ~AIContentOf(body).present
        THEN /\ IterationCatch(PlainError(NoContentError))
             /\ lastSettled' = <<[how |-> "processing_error",
                                  error |-> PlainError(NoContentError)]>>
        ELSE /\ extractedData' =
                    <<AIExtractedData(file, AIContentOf(body), candidates[attemptCount])>>
             /\ invoked' = invoked \cup
                    (IF AIContentOf(body).json
                     THEN {"convertAIResponseToFields"}
                     ELSE {"parseAITextResponse"})
                    \cup {"detectDocumentType", "extractTablesFromText"}
             /\ pc' = "ai_write"
             /\ UNCHANGED <<lastError, lastSettled, aiError, mode>>
    /\ inFlight' = inFlight - 1
    /\ UNCHANGED <<callVars, requestVars, pdfText, candidates, attemptCount, calls,
                   diskVars, now, faults, failure, outcome>>

AIWrite ==
    /\ pc = "ai_write"
    /\ \E ok \in FsOutcomes :
        IF ok
        THEN /\ outputs' = outputs \cup {OutputFileName(now, file)}
             /\ writes' = writes + 1
             /\ extractedData' =
                    <<[extractedData[1] EXCEPT !.outputFile = OutputFileName(now, file)]>>
             /\ pc' = "ai_unlink"
             /\ UNCHANGED <<lastError, lastSettled, aiError, mode, invoked, faults>>
        ELSE /\ IterationCatch(PlainError(WriteError))
             /\ lastSettled' = <<[how |-> "processing_error",
                                  error |-> PlainError(WriteError)]>>
             /\ faults' = faults + 1
             /\ UNCHANGED <<outputs, writes>>
    /\ UNCHANGED <<callVars, requestVars, pdfText, candidates, attemptCount, inFlight,
                   calls, tempExists, deletes, now, failure, outcome>>

\* fs.unlinkSync followed by a step that can still fail: the document is gone
\* when the iteration's catch is entered
AIUnlinkNotLast ==
    /\ pc = "ai_unlink"
    /\ \E ok \in FsOutcomes :
        IF ok /\ TempDocPresent
        THEN /\ tempExists' = FALSE
             /\ deletes' = deletes + 1
             /\ outcome' = AISuccessResult(extractedData[1])
             /\ lastSettled' = <<[how |-> "returned", error |-> PlainError(<<>>)]>>
             /\ pc' = "returned"
             /\ UNCHANGED <<lastError, aiError, mode, invoked, faults, extractedData>>
        ELSE /\ IterationCatch(PlainError(UnlinkError))
             /\ lastSettled' = <<[how |-> "processing_error",
                                  error |-> PlainError(UnlinkError)]>>
             /\ faults' = IF TempDocPresent THEN faults + 1 ELSE faults
             /\ tempExists' = FALSE
             /\ deletes' = IF TempDocPresent THEN deletes + 1 ELSE deletes
             /\ UNCHANGED outcome
    /\ UNCHANGED <<callVars, requestVars, pdfText, candidates, attemptCount, inFlight,
                   calls, outputs, writes, now, failure>>

AIUnlink ==
    /\ pc = "ai_unlink"
    /\ \E ok \in FsOutcomes :
        IF ok /\ TempDocPresent
        THEN /\ tempExists' = FALSE
             /\ deletes' = deletes + 1
             /\ outcome' = AISuccessResult(extractedData[1])
             /\ lastSettled' = <<[how |-> "returned", error |-> PlainError(<<>>)]>>
             /\ pc' = "returned"
             /\ UNCHANGED <<lastError, aiError, mode, invoked, faults, extractedData>>
        ELSE /\ IterationCatch(PlainError(UnlinkError))
             /\ lastSettled' = <<[how |-> "processing_error",
                                  error |-> PlainError(UnlinkError)]>>
             /\ faults' = IF TempDocPresent THEN faults + 1 ELSE faults
             /\ UNCHANGED <<tempExists, deletes, outcome>>
    /\ UNCHANGED <<callVars, requestVars, pdfText, candidates, attemptCount, inFlight,
                   calls, outputs, writes, now, failure>>

\* the loops end without a return
Exhausted ==
    /\ pc = "probe_loop"
    /\ attemptCount = Len(candidates)
    /\ AIFails(ExhaustedMessage(lastError))
    /\ UNCHANGED <<callVars, requestVars, probeVars, diskVars, now, faults,
                   extractedData, failure, outcome>>

-----------------------------------------------------------------------------
(* processWithLocalLogic *)

LocalReadFile ==
    /\ pc = "local_read"
    /\ IF ~TempDocPresent
       THEN Fails(ReadMissingError) /\ UNCHANGED faults
       ELSE \E ok \in FsOutcomes :
               IF ok
               THEN /\ pc' = "local_parse"
                    /\ UNCHANGED <<failure, faults>>
               ELSE /\ Fails(ReadFaultError)
                    /\ faults' = faults + 1
    /\ UNCHANGED <<callVars, requestVars, probeVars, diskVars, now, mode, extractedData,
                   aiError, outcome, invoked>>

LocalParsePdf ==
    /\ pc = "local_parse"
    /\ IF pdfContent.corrupt
       THEN /\ Fails(PdfParseError)
            /\ UNCHANGED <<extractedData, invoked>>
       ELSE /\ extractedData' = <<LocalExtractedData(file)>>
            /\ invoked' = invoked \cup
                   {"parseDocumentFields", "extractTablesFromText", "detectDocumentType"}
            /\ pc' = "local_write"
            /\ UNCHANGED failure
    /\ UNCHANGED <<callVars, requestVars, probeVars, diskVars, now, faults, mode,
                   aiError, outcome>>

LocalWrite ==
    /\ pc = "local_write"
    /\ \E ok \in FsOutcomes :
        IF ok
        THEN /\ outputs' = outputs \cup {OutputFileName(now, file)}
             /\ writes' = writes + 1
             /\ extractedData' =
                    <<[extractedData[1] EXCEPT !.outputFile = OutputFileName(now, file)]>>
             /\ pc' = "local_unlink"
             /\ UNCHANGED <<failure, faults>>
        ELSE /\ Fails(WriteError)
             /\ faults' = faults + 1
             /\ UNCHANGED <<outputs, writes, extractedData>>
    /\ UNCHANGED <<callVars, requestVars, probeVars, tempExists, deletes, now, mode,
                   aiError, outcome, invoked>>

LocalUnlink ==
    /\ pc = "local_unlink"
    /\ \E ok \in FsOutcomes :
        IF ok /\ TempDocPresent
        THEN /\ tempExists' = FALSE
             /\ deletes' = deletes + 1
             /\ outcome' = IF mode = "local_only"
                           THEN LocalOnlyResult(extractedData[1])
                           ELSE FallbackResult(extractedData[1], aiError, now)
             /\ pc' = "returned"
             /\ UNCHANGED <<failure, faults>>
        ELSE /\ Fails(UnlinkError)
             /\ faults' = IF TempDocPresent THEN faults + 1 ELSE faults
             /\ UNCHANGED <<tempExists, deletes, outcome>>
    /\ UNCHANGED <<callVars, requestVars, probeVars, outputs, writes, now, mode,
                   extractedData, aiError, invoked>>

-----------------------------------------------------------------------------
(* extractData's outer catch *)

Cleanup ==
    /\ pc = "cleanup"
    /\ IF TempDocPresent
       THEN \E ok \in FsOutcomes :
               IF ok
               THEN /\ tempExists' = FALSE
                    /\ deletes' = deletes + 1
                    /\ outcome' = Raised(WrapExtractError(failure))
                    /\ UNCHANGED faults
               ELSE /\ outcome' = Raised(UnlinkError)
                    /\ faults' = faults + 1
                    /\ UNCHANGED <<tempExists, deletes>>
       ELSE /\ outcome' = Raised(WrapExtractError(failure))
            /\ UNCHANGED <<tempExists, deletes, faults>>
    /\ pc' = "raised"
    /\ UNCHANGED <<callVars, requestVars, probeVars, outputs, writes, now, mode,
                   extractedData, aiError, failure, invoked>>

-----------------------------------------------------------------------------
(* The clock advances while the request is being served. *)

Tick ==
    /\ pc \notin {"returned", "raised"}
    /\ now < MaxTime
    /\ now' = now + 1
    /\ UNCHANGED <<callVars, requestVars, probeVars, diskVars, faults, pc, mode,
                   extractedData, aiError, failure, outcome, invoked>>

Next ==
    \/ ExtractData
    \/ AIReadFile
    \/ AIParsePdf
    \/ IssueProbe
    \/ ProbeFails
    \/ ProbeSucceeds
    \/ AIWrite
    \/ AIUnlink
    \/ Exhausted
    \/ LocalReadFile
    \/ LocalParsePdf
    \/ LocalWrite
    \/ LocalUnlink
    \/ Cleanup
    \/ Tick

Spec == Init /\ [][Next]_vars

-----------------------------------------------------------------------------
(* Properties of the orchestrator and of the probe loop *)

Returned == outcome.kind = "returned"
RaisedToCaller == outcome.kind = "raised"
CredentialsPresent == Truthy(apiKey) /\ Truthy(apiUrl)
FixedPair == Truthy(deploymentName) /\ Truthy(apiVersion)
IsAuthFailure(e) == e.status \in {"401", "403"}

\* C1: when callAIFoundryAPI raised and the local path then succeeded, the
\* result has success=true, a message holding 'local processing' and the AI
\* error text, and aiErrorDetails with that text, a timestamp and
\* fallbackUsed=true; the local-only and AI-success results carry no
\* aiErrorDetails.
C1_FallbackResult ==
    Returned =>
        /\ (aiError # <<>>) <=> (outcome.aiErrorDetails # <<>>)
        /\ aiError # <<>> =>
            /\ outcome.success
            /\ Contains(outcome.message, <<"local processing">>)
            /\ Contains(outcome.message, aiError)
            /\ outcome.aiErrorDetails[1].error = aiError
            /\ outcome.aiErrorDetails[1].timestamp = now
            /\ outcome.aiErrorDetails[1].fallbackUsed = TRUE
            /\ Contains(aiError, <<"AI Foundry API call failed: ">>)

C1_Witness ==
    /\ Returned
    /\ CredentialsPresent
    /\ Contains(aiError, <<"Authentication failed">>)
    /\ outcome.aiErrorDetails # <<>>

\* C2: every execution of extractData that returns a result has written the
\* output artifact exactly once and deleted the temporary document exactly
\* once, also when a write or delete attempt raised along the way.
C2_WrittenAndDeletedOnce ==
    Returned => (writes = 1 /\ deletes = 1)

\* C3: whenever extractData fails, the temporary document no longer exists
\* when the error reaches the caller, and the error is the generic
\* 'Error extracting data: <cause>'.
C3_FailureCleanup ==
    RaisedToCaller =>
        /\ ~tempExists
        /\ outcome.message = <<"Error extracting data: ">> \o failure

AuthFailureSeen ==
    /\ lastSettled # <<>>
    /\ lastSettled[1].how = "http_error"
    /\ IsAuthFailure(lastSettled[1].error)

\* C4: once a probe has failed with HTTP 401 or 403 no further outbound call
\* is made for the request, and callAIFoundryAPI has failed with an error
\* whose message contains 'Authentication failed'.
C4_FatalAuthentication ==
    /\ [](AuthFailureSeen =>
            /\ inFlight = 0
            /\ pc \notin {"probe_loop", "awaiting", "ai_write", "ai_unlink"}
            /\ Contains(aiError, <<"Authentication failed">>))
    /\ [][AuthFailureSeen => calls' = calls]_vars

C4_Witness ==
    /\ AuthFailureSeen
    /\ lastSettled[1].error.status = "401"
    /\ ~FixedPair
    /\ Len(calls) = 1
    /\ pc \in {"returned", "raised"}

HttpFailedNonAuth ==
    /\ lastSettled # <<>>
    /\ lastSettled[1].how = "http_error"
    /\ ~IsAuthFailure(lastSettled[1].error)

\* C5: with no fixed pair the probes are issued strictly one at a time in the
\* fixed candidate order, and probe k+1 is issued only after probe k has
\* completed with a non-auth failure of the call (404, timeout, 5xx, network
\* error), never while another probe is in flight.
C5_SequentialRetry ==
    /\ inFlight <= 1
    /\ ~FixedPair =>
          \A k \in 1..Len(calls) :
              /\ calls[k].deployment = deploymentOptions[((k - 1) \div 4) + 1]
              /\ calls[k].apiVersion = apiVersions[((k - 1) % 4) + 1]
    /\ (pc = "awaiting" /\ Len(calls) > 1) => HttpFailedNonAuth

IterationFailedNonAuth ==
    /\ lastSettled # <<>>
    /\ lastSettled[1].how \in {"http_error", "processing_error"}
    /\ ~IsAuthFailure(lastSettled[1].error)

\* What the probe loop does guarantee: one call in flight at most, the
\* candidate order, a new call only from the catch of the previous iteration
\* (whatever non-auth error ended it), and an AI result that is the result of
\* the last call made.
ProbeLoopSequential ==
    /\ [](inFlight <= 1)
    /\ [](~FixedPair =>
            \A k \in 1..Len(calls) :
                /\ calls[k].deployment = deploymentOptions[((k - 1) \div 4) + 1]
                /\ calls[k].apiVersion = apiVersions[((k - 1) % 4) + 1])
    /\ [][calls' # calls =>
            /\ inFlight = 0
            /\ Len(calls') = Len(calls) + 1
            /\ (calls # <<>> => IterationFailedNonAuth)]_vars
    /\ []((lastSettled # <<>> /\ lastSettled[1].how = "returned") =>
            /\ Returned
            /\ outcome.data[1].deployment = calls[Len(calls)].deployment
            /\ outcome.data[1].apiVersion = calls[Len(calls)].apiVersion)

ThreeCallsThirdReturned ==
    /\ ~FixedPair
    /\ Returned
    /\ aiError = <<>>
    /\ Len(calls) = 3
    /\ outcome.data[1].deployment = "gpt-4o"
    /\ outcome.data[1].apiVersion = "2023-12-01-preview"

\* C6: with a fixed deployment name and API version configured, one request
\* makes exactly one outbound call, against that pair, however the call ends.
C6_FixedPairOneCall ==
    FixedPair =>
        /\ Len(calls) <= 1
        /\ \A k \in 1..Len(calls) :
              calls[k] = [deployment |-> deploymentName, apiVersion |-> apiVersion]
        /\ (candidates # <<>> /\ pc \in {"returned", "raised"}) => Len(calls) = 1

C6_Witness ==
    /\ FixedPair
    /\ Len(calls) = 1
    /\ pc = "returned"
    /\ lastSettled[1].how = "http_error"
    /\ lastSettled[1].error.status = "404"

AllProbesFailed ==
    /\ ~FixedPair
    /\ candidates # <<>>
    /\ attemptCount = Len(candidates)
    /\ pc \notin {"probe_loop", "awaiting", "ai_write", "ai_unlink"}
    /\ IterationFailedNonAuth

\* C7: with no fixed pair, when every candidate has failed with a non-auth
\* error, each of the 7 x 4 = 28 pairs has been tried exactly once in
\* deployment-major order and the client has failed with the aggregate error
\* that embeds the failure of the last probe.
C7_ProbeExhaustion ==
    AllProbesFailed =>
        /\ Len(calls) = 28
        /\ \A i, j \in 1..Len(calls) : i # j => calls[i] # calls[j]
        /\ \A k \in 1..Len(calls) :
              /\ calls[k].deployment = deploymentOptions[((k - 1) \div 4) + 1]
              /\ calls[k].apiVersion = apiVersions[((k - 1) % 4) + 1]
        /\ Contains(aiError, <<"All deployment/API version combinations failed.">>)
        /\ LET e == lastSettled[1].error
           IN  Contains(aiError,
                   <<" Last error: ", Render(e.status), " ">> \o
                   (IF e.statusText \notin {Undefined, ""}
                    THEN <<e.statusText>> ELSE e.message))

C7_Witness ==
    /\ AllProbesFailed
    /\ lastSettled[1].error.status = "500"
    /\ Returned

\* C8: when the API key or the API URL is absent no outbound call is made,
\* the local extractors run, the result has success=true and the message
\* 'local processing (AI Foundry not configured)', and an error reaches the
\* caller only when the local processing itself failed.
C8_LocalOnly ==
    ~CredentialsPresent =>
        /\ calls = <<>>
        /\ inFlight = 0
        /\ "callAIFoundryAPI" \notin invoked
        /\ Returned =>
            /\ outcome.success
            /\ Contains(outcome.message,
                   <<"local processing", " (", "AI Foundry not configured", ")">>)
            /\ {"parseDocumentFields", "extractTablesFromText"} \subseteq invoked
            /\ outcome.aiErrorDetails = <<>>
        /\ RaisedToCaller =>
            (pdfContent.corrupt \/ faults > 0 \/ file.path = Undefined)

C8_Witness ==
    /\ apiKey = "test-api-key"
    /\ apiUrl = Undefined
    /\ Returned

\* C9: when the AI client returns a result, extractData returns success=true
\* with the message 'Document processed successfully with AI Foundry', the
\* local extractor has not been invoked, and every key-value pair comes from
\* the AI response.
C9_AISuccess ==
    (lastSettled # <<>> /\ lastSettled[1].how = "returned") =>
        /\ Returned
        /\ outcome.success
        /\ outcome.message = <<"Document processed successfully with ", "AI Foundry">>
        /\ invoked \cap {"processWithLocalLogic", "parseDocumentFields"} = {}
        /\ LET d == outcome.data[1]
               said == {d.aiResponse.entries[i].value : i \in 1..Len(d.aiResponse.entries)}
                       \cup {d.aiResponse.lines[i].value : i \in 1..Len(d.aiResponse.lines)}
           IN  \A i \in 1..Len(d.keyValuePairs) :
                   /\ d.keyValuePairs[i].value \in said
                   /\ d.keyValuePairs[i].confidence \in {85, 90}

C9_Witness ==
    /\ lastSettled # <<>>
    /\ lastSettled[1].how = "returned"
    /\ Len(outcome.data[1].keyValuePairs) = 2

BlankDocument ==
    /\ ~pdfContent.corrupt
    /\ \A i \in 1..Len(pdfContent.text) : pdfContent.text[i] \in {" ", "\n", "\t"}

\* C10: when the extracted text is empty or whitespace-only the AI path makes
\* no outbound call and aborts with 'No text content found in PDF', and
\* extractData treats that as an AI failure: the local fallback runs and the
\* error is not raised to the caller.
C10_EmptyDocument ==
    (CredentialsPresent /\ BlankDocument) =>
        /\ calls = <<>>
        /\ inFlight = 0
        /\ pc \notin {"probe_loop", "awaiting", "ai_write", "ai_unlink"}
        /\ (pc \notin {"start", "ai_read", "ai_parse"}) =>
            /\ "processWithLocalLogic" \in invoked
            /\ \/ aiError = <<"AI Foundry API call failed: ", "No text content found in PDF">>
               \/ aiError = <<"AI Foundry API call failed: ">> \o ReadMissingError
               \/ aiError = <<"AI Foundry API call failed: ">> \o ReadFaultError
        /\ Returned =>
            /\ outcome.success
            /\ outcome.aiErrorDetails # <<>>
        /\ RaisedToCaller =>
            ~Contains(outcome.message, <<"No text content found in PDF">>)

C10_Witness ==
    /\ CredentialsPresent
    /\ pdfContent.text = <<" ", "\n", "\t">>
    /\ Returned
    /\ Contains(outcome.message, <<"No text content found in PDF">>)

-----------------------------------------------------------------------------
(* The patterns object of parseDocumentFields: its entries in insertion    *)
(* order, each a field name and the regular expressions tried for it.     *)

patterns == <<
    \* 'PO Number'
    [fieldName |->
        <<"P", "O", " ", "N", "u", "m", "b", "e", "r">>,
     fieldPatterns |-> <<
        \* /PO\s+Number\s*:\s*(\d+)/i
        [re |-> Cat(<<Lit(<<"P", "O">>), Plus(Ch(Whitespace)), Lit(<<"N", "u", "m",
            "b", "e", "r">>), Star(Ch(Whitespace)), Ch({":"}),
            Star(Ch(Whitespace)), Cap(1, Plus(Ch(Digits)))>>), fl |-> {"i"}],
        \* /PO\s+No\.?\s*:?\s*([A-Z0-9]+)/i
        [re |-> Cat(<<Lit(<<"P", "O">>), Plus(Ch(Whitespace)), Lit(<<"N", "o">>),
            Opt(Ch({"."})), Star(Ch(Whitespace)), Opt(Ch({":"})),
            Star(Ch(Whitespace)), Cap(1,
            Plus(Ch(UpperLetters \cup Digits)))>>), fl |-> {"i"}],
        \* /Purchase\s+Order[:\s]*([A-Z0-9]+)/i
        [re |-> Cat(<<Lit(<<"P", "u", "r", "c", "h", "a", "s", "e">>),
            Plus(Ch(Whitespace)), Lit(<<"O", "r", "d", "e", "r">>),
            Star(Ch(Whitespace \cup {":"})), Cap(1,
            Plus(Ch(UpperLetters \cup Digits)))>>), fl |-> {"i"}],
        \* /(PR\d{6})/i
        [re |-> Cap(1, Cat(<<Lit(<<"P", "R">>), Rep(Ch(Digits), 6, 6)>>)),
            fl |-> {"i"}]
        >>],
    \* 'Vendor Name'
    [fieldName |->
        <<"V", "e", "n", "d", "o", "r", " ", "N", "a", "m", "e">>,
     fieldPatterns |-> <<
        \* /\nTO:\s*\n([A-Za-z\s&,\.]+)\s*\n/im
        [re |-> Cat(<<Lit(<<"\n", "T", "O", ":">>), Star(Ch(Whitespace)),
            Ch({"\n"}), Cap(1, Plus(Ch(Letters \cup Whitespace \cup {"&",
            ",", "."}))), Star(Ch(Whitespace)), Ch({"\n"})>>), fl |-> {"i",
            "m"}],
        \* /^TO:\s*\n([A-Za-z\s&,\.]+)\s*\n/im
        [re |-> Cat(<<Bol, Lit(<<"T", "O", ":">>), Star(Ch(Whitespace)), Ch({"\n"}),
            Cap(1, Plus(Ch(Letters \cup Whitespace \cup {"&", ",", "."}))),
            Star(Ch(Whitespace)), Ch({"\n"})>>), fl |-> {"i", "m"}],
        \* /BILL\s+TO:\s*\n([^\n]+)/i
        [re |-> Cat(<<Lit(<<"B", "I", "L", "L">>), Plus(Ch(Whitespace)), Lit(<<"T",
            "O", ":">>), Star(Ch(Whitespace)), Ch({"\n"}), Cap(1,
            Plus(NotCh({"\n"})))>>), fl |-> {"i"}],
        \* /(?:^|\n)([A-Za-z\s,&]+(?:LLC|Inc|Corp|Ltd|Co\.|international))/im
        [re |-> Cat(<<Alt(<<Bol, Ch({"\n"})>>), Cap(1,
            Cat(<<Plus(Ch(Letters \cup Whitespace \cup {",", "&"})),
            Alt(<<Lit(<<"L", "L", "C">>), Lit(<<"I", "n", "c">>), Lit(<<"C",
            "o", "r", "p">>), Lit(<<"L", "t", "d">>), Lit(<<"C", "o",
            ".">>), Lit(<<"i", "n", "t", "e", "r", "n", "a", "t", "i", "o",
            "n", "a", "l">>)>>)>>))>>), fl |-> {"i", "m"}],
        \* /Vendor[:\s]*\n([^\n]+)/i
        [re |-> Cat(<<Lit(<<"V", "e", "n", "d", "o", "r">>),
            Star(Ch(Whitespace \cup {":"})), Ch({"\n"}), Cap(1,
            Plus(NotCh({"\n"})))>>), fl |-> {"i"}]
        >>],
    \* 'Vendor Address'
    [fieldName |->
        <<"V", "e", "n", "d", "o", "r", " ", "A", "d", "d", "r", "e", "s",
          "s">>,
     fieldPatterns |-> <<
        \* /\nTO:\s*\n[^\n]+\s*\n([^\n]+(?:\n[^\n]+)*?)(?=\n[a-z@]|\nSHIP\s+TO|\n\s*\n)/i
        [re |-> Cat(<<Lit(<<"\n", "T", "O", ":">>), Star(Ch(Whitespace)),
            Ch({"\n"}), Plus(NotCh({"\n"})), Star(Ch(Whitespace)),
            Ch({"\n"}), Cap(1, Cat(<<Plus(NotCh({"\n"})),
            Lazy(Cat(<<Ch({"\n"}), Plus(NotCh({"\n"}))>>), 0, Inf)>>)),
            Look(Alt(<<Cat(<<Ch({"\n"}), Ch(LowerLetters \cup {"@"})>>),
            Cat(<<Lit(<<"\n", "S", "H", "I", "P">>), Plus(Ch(Whitespace)),
            Lit(<<"T", "O">>)>>), Cat(<<Ch({"\n"}), Star(Ch(Whitespace)),
            Ch({"\n"})>>)>>))>>), fl |-> {"i"}],
        \* /^TO:\s*\n[^\n]+\s*\n([^\n]+(?:\n[^\n]+)*?)(?=\n[a-z@]|\nSHIP\s+TO|\n\s*\n)/i
        [re |-> Cat(<<Bol, Lit(<<"T", "O", ":">>), Star(Ch(Whitespace)), Ch({"\n"}),
            Plus(NotCh({"\n"})), Star(Ch(Whitespace)), Ch({"\n"}), Cap(1,
            Cat(<<Plus(NotCh({"\n"})), Lazy(Cat(<<Ch({"\n"}),
            Plus(NotCh({"\n"}))>>), 0, Inf)>>)),
            Look(Alt(<<Cat(<<Ch({"\n"}), Ch(LowerLetters \cup {"@"})>>),
            Cat(<<Lit(<<"\n", "S", "H", "I", "P">>), Plus(Ch(Whitespace)),
            Lit(<<"T", "O">>)>>), Cat(<<Ch({"\n"}), Star(Ch(Whitespace)),
            Ch({"\n"})>>)>>))>>), fl |-> {"i"}],
        \* /BILL\s+TO:\s*\n[^\n]+\n([^\n]+(?:\n[^\n]+)*?)(?=\nPhone|TO:|$)/i
        [re |-> Cat(<<Lit(<<"B", "I", "L", "L">>), Plus(Ch(Whitespace)), Lit(<<"T",
            "O", ":">>), Star(Ch(Whitespace)), Ch({"\n"}),
            Plus(NotCh({"\n"})), Ch({"\n"}), Cap(1,
            Cat(<<Plus(NotCh({"\n"})), Lazy(Cat(<<Ch({"\n"}),
            Plus(NotCh({"\n"}))>>), 0, Inf)>>)), Look(Alt(<<Lit(<<"\n", "P",
            "h", "o", "n", "e">>), Lit(<<"T", "O", ":">>), Eol>>))>>),
            fl |-> {"i"}],
        \* /(\d+\s+[A-Za-z\s]+\n[A-Za-z\s]+\s+[A-Z]{2}\s+\d{5})/m
        [re |-> Cap(1, Cat(<<Plus(Ch(Digits)), Plus(Ch(Whitespace)),
            Plus(Ch(Letters \cup Whitespace)), Ch({"\n"}),
            Plus(Ch(Letters \cup Whitespace)), Plus(Ch(Whitespace)),
            Rep(Ch(UpperLetters), 2, 2), Plus(Ch(Whitespace)),
            Rep(Ch(Digits), 5, 5)>>)), fl |-> {"m"}]
        >>],
    \* 'Ship To Address'
    [fieldName |->
        <<"S", "h", "i", "p", " ", "T", "o", " ", "A", "d", "d", "r", "e",
          "s", "s">>,
     fieldPatterns |-> <<
        \* /SHIP\s+TO:\s*\n([^\n]+(?:\n[^\n]+)*?)(?=\nPhone|\n\s*\n|P\.O\.|$)/i
        [re |-> Cat(<<Lit(<<"S", "H", "I", "P">>), Plus(Ch(Whitespace)), Lit(<<"T",
            "O", ":">>), Star(Ch(Whitespace)), Ch({"\n"}), Cap(1,
            Cat(<<Plus(NotCh({"\n"})), Lazy(Cat(<<Ch({"\n"}),
            Plus(NotCh({"\n"}))>>), 0, Inf)>>)), Look(Alt(<<Lit(<<"\n", "P",
            "h", "o", "n", "e">>), Cat(<<Ch({"\n"}), Star(Ch(Whitespace)),
            Ch({"\n"})>>), Lit(<<"P", ".", "O", ".">>), Eol>>))>>),
            fl |-> {"i"}],
        \* /Ship\s+To\s+Address[:\s]*[^\n]*\n([^\n]+(?:\n[^\n]+)*?)(?=\n\s*\n|\nReq\s+Date|$)/i
        [re |-> Cat(<<Lit(<<"S", "h", "i", "p">>), Plus(Ch(Whitespace)), Lit(<<"T",
            "o">>), Plus(Ch(Whitespace)), Lit(<<"A", "d", "d", "r", "e",
            "s", "s">>), Star(Ch(Whitespace \cup {":"})),
            Star(NotCh({"\n"})), Ch({"\n"}), Cap(1,
            Cat(<<Plus(NotCh({"\n"})), Lazy(Cat(<<Ch({"\n"}),
            Plus(NotCh({"\n"}))>>), 0, Inf)>>)),
            Look(Alt(<<Cat(<<Ch({"\n"}), Star(Ch(Whitespace)),
            Ch({"\n"})>>), Cat(<<Lit(<<"\n", "R", "e", "q">>),
            Plus(Ch(Whitespace)), Lit(<<"D", "a", "t", "e">>)>>),
            Eol>>))>>), fl |-> {"i"}]
        >>],
    \* 'Order Date'
    [fieldName |->
        <<"O", "r", "d", "e", "r", " ", "D", "a", "t", "e">>,
     fieldPatterns |-> <<
        \* /(\d{4}-\d{2}-\d{2})/
        [re |-> Cap(1, Cat(<<Rep(Ch(Digits), 4, 4), Ch({"-"}), Rep(Ch(Digits), 2,
            2), Ch({"-"}), Rep(Ch(Digits), 2, 2)>>)), fl |-> {}],
        \* /P\.O\.\s+DATE\s+[^\n]*\n[^\n]*\n([^\n\s]+)/i
        [re |-> Cat(<<Lit(<<"P", ".", "O", ".">>), Plus(Ch(Whitespace)), Lit(<<"D",
            "A", "T", "E">>), Plus(Ch(Whitespace)), Star(NotCh({"\n"})),
            Ch({"\n"}), Star(NotCh({"\n"})), Ch({"\n"}), Cap(1,
            Plus(NotCh(Whitespace \cup {"\n"})))>>), fl |-> {"i"}],
        \* /Order\s+Date[:\s]*(\d{2}-\d{2}-\d{2,4})/i
        [re |-> Cat(<<Lit(<<"O", "r", "d", "e", "r">>), Plus(Ch(Whitespace)),
            Lit(<<"D", "a", "t", "e">>), Star(Ch(Whitespace \cup {":"})),
            Cap(1, Cat(<<Rep(Ch(Digits), 2, 2), Ch({"-"}), Rep(Ch(Digits),
            2, 2), Ch({"-"}), Rep(Ch(Digits), 2, 4)>>))>>), fl |-> {"i"}],
        \* /(\d{2}-[A-Za-z]{3}-\d{4})/i
        [re |-> Cap(1, Cat(<<Rep(Ch(Digits), 2, 2), Ch({"-"}), Rep(Ch(Letters), 3,
            3), Ch({"-"}), Rep(Ch(Digits), 4, 4)>>)), fl |-> {"i"}]
        >>],
    \* 'Required Date'
    [fieldName |->
        <<"R", "e", "q", "u", "i", "r", "e", "d", " ", "D", "a", "t", "e">>,
     fieldPatterns |-> <<
        \* /Req\s+Date[:\s]*(\d{2}-\d{2}-\d{2,4})/i
        [re |-> Cat(<<Lit(<<"R", "e", "q">>), Plus(Ch(Whitespace)), Lit(<<"D", "a",
            "t", "e">>), Star(Ch(Whitespace \cup {":"})), Cap(1,
            Cat(<<Rep(Ch(Digits), 2, 2), Ch({"-"}), Rep(Ch(Digits), 2, 2),
            Ch({"-"}), Rep(Ch(Digits), 2, 4)>>))>>), fl |-> {"i"}],
        \* /Required[:\s]*(\d{2}-\d{2}-\d{2,4})/i
        [re |-> Cat(<<Lit(<<"R", "e", "q", "u", "i", "r", "e", "d">>),
            Star(Ch(Whitespace \cup {":"})), Cap(1, Cat(<<Rep(Ch(Digits), 2,
            2), Ch({"-"}), Rep(Ch(Digits), 2, 2), Ch({"-"}), Rep(Ch(Digits),
            2, 4)>>))>>), fl |-> {"i"}]
        >>],
    \* 'Total Amount'
    [fieldName |->
        <<"T", "o", "t", "a", "l", " ", "A", "m", "o", "u", "n", "t">>,
     fieldPatterns |-> <<
        \* /GRAND\s+TOTAL\s*\$?([0-9,]+\.?\d{0,2})/i
        [re |-> Cat(<<Lit(<<"G", "R", "A", "N", "D">>), Plus(Ch(Whitespace)),
            Lit(<<"T", "O", "T", "A", "L">>), Star(Ch(Whitespace)),
            Opt(Ch({"$"})), Cap(1, Cat(<<Plus(Ch(Digits \cup {","})),
            Opt(Ch({"."})), Rep(Ch(Digits), 0, 2)>>))>>), fl |-> {"i"}],
        \* /Order\s+Total[:\s]*\$?\s*([0-9,]+\.?\d{0,2})/i
        [re |-> Cat(<<Lit(<<"O", "r", "d", "e", "r">>), Plus(Ch(Whitespace)),
            Lit(<<"T", "o", "t", "a", "l">>),
            Star(Ch(Whitespace \cup {":"})), Opt(Ch({"$"})),
            Star(Ch(Whitespace)), Cap(1, Cat(<<Plus(Ch(Digits \cup {","})),
            Opt(Ch({"."})), Rep(Ch(Digits), 0, 2)>>))>>), fl |-> {"i"}],
        \* /Total[:\s]*\$?\s*([0-9,]+\.?\d{0,2})/i
        [re |-> Cat(<<Lit(<<"T", "o", "t", "a", "l">>),
            Star(Ch(Whitespace \cup {":"})), Opt(Ch({"$"})),
            Star(Ch(Whitespace)), Cap(1, Cat(<<Plus(Ch(Digits \cup {","})),
            Opt(Ch({"."})), Rep(Ch(Digits), 0, 2)>>))>>), fl |-> {"i"}]
        >>],
    \* 'Subtotal'
    [fieldName |->
        <<"S", "u", "b", "t", "o", "t", "a", "l">>,
     fieldPatterns |-> <<
        \* /SUBTOTAL\s*\$?\s*([0-9,]+\.?\d{0,2})/i
        [re |-> Cat(<<Lit(<<"S", "U", "B", "T", "O", "T", "A", "L">>),
            Star(Ch(Whitespace)), Opt(Ch({"$"})), Star(Ch(Whitespace)),
            Cap(1, Cat(<<Plus(Ch(Digits \cup {","})), Opt(Ch({"."})),
            Rep(Ch(Digits), 0, 2)>>))>>), fl |-> {"i"}],
        \* /Sub\s+Total[:\s]*\$?\s*([0-9,]+\.?\d{0,2})/i
        [re |-> Cat(<<Lit(<<"S", "u", "b">>), Plus(Ch(Whitespace)), Lit(<<"T", "o",
            "t", "a", "l">>), Star(Ch(Whitespace \cup {":"})),
            Opt(Ch({"$"})), Star(Ch(Whitespace)), Cap(1,
            Cat(<<Plus(Ch(Digits \cup {","})), Opt(Ch({"."})),
            Rep(Ch(Digits), 0, 2)>>))>>), fl |-> {"i"}],
        \* /Subtotal[:\s]*\$?\s*([0-9,]+\.?\d{0,2})/i
        [re |-> Cat(<<Lit(<<"S", "u", "b", "t", "o", "t", "a", "l">>),
            Star(Ch(Whitespace \cup {":"})), Opt(Ch({"$"})),
            Star(Ch(Whitespace)), Cap(1, Cat(<<Plus(Ch(Digits \cup {","})),
            Opt(Ch({"."})), Rep(Ch(Digits), 0, 2)>>))>>), fl |-> {"i"}]
        >>],
    \* 'Phone Number'
    [fieldName |->
        <<"P", "h", "o", "n", "e", " ", "N", "u", "m", "b", "e", "r">>,
     fieldPatterns |-> <<
        \* /Phone[:\s]*(\(\d{3}\)\s*\d{3}-\d{4})/i
        [re |-> Cat(<<Lit(<<"P", "h", "o", "n", "e">>),
            Star(Ch(Whitespace \cup {":"})), Cap(1, Cat(<<Ch({"("}),
            Rep(Ch(Digits), 3, 3), Ch({")"}), Star(Ch(Whitespace)),
            Rep(Ch(Digits), 3, 3), Ch({"-"}), Rep(Ch(Digits), 4, 4)>>))>>),
            fl |-> {"i"}],
        \* /Phone[:\s]*(\d{3}-\d{3}-\d{4})/i
        [re |-> Cat(<<Lit(<<"P", "h", "o", "n", "e">>),
            Star(Ch(Whitespace \cup {":"})), Cap(1, Cat(<<Rep(Ch(Digits), 3,
            3), Ch({"-"}), Rep(Ch(Digits), 3, 3), Ch({"-"}), Rep(Ch(Digits),
            4, 4)>>))>>), fl |-> {"i"}],
        \* /Phone[:\s]*(\d{3}\.\d{3}\.\d{4})/i
        [re |-> Cat(<<Lit(<<"P", "h", "o", "n", "e">>),
            Star(Ch(Whitespace \cup {":"})), Cap(1, Cat(<<Rep(Ch(Digits), 3,
            3), Ch({"."}), Rep(Ch(Digits), 3, 3), Ch({"."}), Rep(Ch(Digits),
            4, 4)>>))>>), fl |-> {"i"}],
        \* /(\(\d{3}\)\s*\d{3}-\d{4})/
        [re |-> Cap(1, Cat(<<Ch({"("}), Rep(Ch(Digits), 3, 3), Ch({")"}),
            Star(Ch(Whitespace)), Rep(Ch(Digits), 3, 3), Ch({"-"}),
            Rep(Ch(Digits), 4, 4)>>)), fl |-> {}],
        \* /(\d{3}-\d{3}-\d{4})/
        [re |-> Cap(1, Cat(<<Rep(Ch(Digits), 3, 3), Ch({"-"}), Rep(Ch(Digits), 3,
            3), Ch({"-"}), Rep(Ch(Digits), 4, 4)>>)), fl |-> {}],
        \* /(\d{3}\.\d{3}\.\d{4})/
        [re |-> Cap(1, Cat(<<Rep(Ch(Digits), 3, 3), Ch({"."}), Rep(Ch(Digits), 3,
            3), Ch({"."}), Rep(Ch(Digits), 4, 4)>>)), fl |-> {}]
        >>],
    \* 'Fax Number'
    [fieldName |->
        <<"F", "a", "x", " ", "N", "u", "m", "b", "e", "r">>,
     fieldPatterns |-> <<
        \* /Fax[:\s]*(\(\d{3}\)\s*\d{3}-\d{4})/i
        [re |-> Cat(<<Lit(<<"F", "a", "x">>), Star(Ch(Whitespace \cup {":"})),
            Cap(1, Cat(<<Ch({"("}), Rep(Ch(Digits), 3, 3), Ch({")"}),
            Star(Ch(Whitespace)), Rep(Ch(Digits), 3, 3), Ch({"-"}),
            Rep(Ch(Digits), 4, 4)>>))>>), fl |-> {"i"}],
        \* /Fax[:\s]*(\d{3}-\d{3}-\d{4})/i
        [re |-> Cat(<<Lit(<<"F", "a", "x">>), Star(Ch(Whitespace \cup {":"})),
            Cap(1, Cat(<<Rep(Ch(Digits), 3, 3), Ch({"-"}), Rep(Ch(Digits),
            3, 3), Ch({"-"}), Rep(Ch(Digits), 4, 4)>>))>>), fl |-> {"i"}]
        >>],
    \* 'Ship Via'
    [fieldName |->
        <<"S", "h", "i", "p", " ", "V", "i", "a">>,
     fieldPatterns |-> <<
        \* /SHIPPED\s+VIA[:\s]*([A-Z0-9\s]+)/i
        [re |-> Cat(<<Lit(<<"S", "H", "I", "P", "P", "E", "D">>),
            Plus(Ch(Whitespace)), Lit(<<"V", "I", "A">>),
            Star(Ch(Whitespace \cup {":"})), Cap(1,
            Plus(Ch(UpperLetters \cup Digits \cup Whitespace)))>>),
            fl |-> {"i"}],
        \* /Ship\s*Via[:\s]*([A-Z0-9]+)/i
        [re |-> Cat(<<Lit(<<"S", "h", "i", "p">>), Star(Ch(Whitespace)), Lit(<<"V",
            "i", "a">>), Star(Ch(Whitespace \cup {":"})), Cap(1,
            Plus(Ch(UpperLetters \cup Digits)))>>), fl |-> {"i"}],
        \* /ShipVia[:\s]*([A-Z0-9]+)/i
        [re |-> Cat(<<Lit(<<"S", "h", "i", "p", "V", "i", "a">>),
            Star(Ch(Whitespace \cup {":"})), Cap(1,
            Plus(Ch(UpperLetters \cup Digits)))>>), fl |-> {"i"}]
        >>]
    >>

\* the regular expressions of extractFieldWithSimplePattern, by the constant
\* their match is assigned to
simplePatterns == [
    \* /\b(PR\d{6})\b/
    poMatch1 |->
        [re |-> Cat(<<WordB, Cap(1, Cat(<<Lit(<<"P", "R">>), Rep(Ch(Digits), 6,
            6)>>)), WordB>>), fl |-> {}],
    \* /(PR\d{6})/
    poMatch2 |->
        [re |-> Cap(1, Cat(<<Lit(<<"P", "R">>), Rep(Ch(Digits), 6, 6)>>)),
            fl |-> {}],
    \* /\b(PR\d+)\b/
    poMatch3 |->
        [re |-> Cat(<<WordB, Cap(1, Cat(<<Lit(<<"P", "R">>), Plus(Ch(Digits))>>)),
            WordB>>), fl |-> {}],
    \* /PO\s+No\.?[:\s]*([A-Z0-9]+)/i
    poLabelMatch |->
        [re |-> Cat(<<Lit(<<"P", "O">>), Plus(Ch(Whitespace)), Lit(<<"N", "o">>),
            Opt(Ch({"."})), Star(Ch(Whitespace \cup {":"})), Cap(1,
            Plus(Ch(UpperLetters \cup Digits)))>>), fl |-> {"i"}],
    \* /(Barkman\s+Honey,\s+LLC)/i
    barkmanMatch |->
        [re |-> Cap(1, Cat(<<Lit(<<"B", "a", "r", "k", "m", "a", "n">>),
            Plus(Ch(Whitespace)), Lit(<<"H", "o", "n", "e", "y", ",">>),
            Plus(Ch(Whitespace)), Lit(<<"L", "L", "C">>)>>)), fl |-> {"i"}],
    \* /(Phenix\s+Label)/i
    phenixMatch |->
        [re |-> Cap(1, Cat(<<Lit(<<"P", "h", "e", "n", "i", "x">>),
            Plus(Ch(Whitespace)), Lit(<<"L", "a", "b", "e", "l">>)>>)),
            fl |-> {"i"}],
    \* /Bennett's\s+Honey\s+Farm[^\n]*\n\s*3176\s+Honey\s+Lane[^\n]*\n\s*Filmore\s+CA\s+93015/i
    shipMatch |->
        [re |-> Cat(<<Lit(<<"B", "e", "n", "n", "e", "t", "t", "'", "s">>),
            Plus(Ch(Whitespace)), Lit(<<"H", "o", "n", "e", "y">>),
            Plus(Ch(Whitespace)), Lit(<<"F", "a", "r", "m">>),
            Star(NotCh({"\n"})), Ch({"\n"}), Star(Ch(Whitespace)),
            Lit(<<"3", "1", "7", "6">>), Plus(Ch(Whitespace)), Lit(<<"H",
            "o", "n", "e", "y">>), Plus(Ch(Whitespace)), Lit(<<"L", "a",
            "n", "e">>), Star(NotCh({"\n"})), Ch({"\n"}),
            Star(Ch(Whitespace)), Lit(<<"F", "i", "l", "m", "o", "r",
            "e">>), Plus(Ch(Whitespace)), Lit(<<"C", "A">>),
            Plus(Ch(Whitespace)), Lit(<<"9", "3", "0", "1", "5">>)>>),
            fl |-> {"i"}],
    \* /Phenix\s+Label[^\n]*\n[^\n]*Lori\s+Hilton[^\n]*\n[^\n]*11610\s+S\.\s+Alden[^\n]*\n[^\n]*Olathe\s+KS\s+66062/i
    vendorAddrMatch |->
        [re |-> Cat(<<Lit(<<"P", "h", "e", "n", "i", "x">>), Plus(Ch(Whitespace)),
            Lit(<<"L", "a", "b", "e", "l">>), Star(NotCh({"\n"})),
            Ch({"\n"}), Star(NotCh({"\n"})), Lit(<<"L", "o", "r", "i">>),
            Plus(Ch(Whitespace)), Lit(<<"H", "i", "l", "t", "o", "n">>),
            Star(NotCh({"\n"})), Ch({"\n"}), Star(NotCh({"\n"})), Lit(<<"1",
            "1", "6", "1", "0">>), Plus(Ch(Whitespace)), Lit(<<"S", ".">>),
            Plus(Ch(Whitespace)), Lit(<<"A", "l", "d", "e", "n">>),
            Star(NotCh({"\n"})), Ch({"\n"}), Star(NotCh({"\n"})), Lit(<<"O",
            "l", "a", "t", "h", "e">>), Plus(Ch(Whitespace)), Lit(<<"K",
            "S">>), Plus(Ch(Whitespace)), Lit(<<"6", "6", "0", "6",
            "2">>)>>), fl |-> {"i"}],
    \* /Order\s+Total[:\s]*([0-9,]+\.?\d{0,2})/i
    totalMatch |->
        [re |-> Cat(<<Lit(<<"O", "r", "d", "e", "r">>), Plus(Ch(Whitespace)),
            Lit(<<"T", "o", "t", "a", "l">>),
            Star(Ch(Whitespace \cup {":"})), Cap(1,
            Cat(<<Plus(Ch(Digits \cup {","})), Opt(Ch({"."})),
            Rep(Ch(Digits), 0, 2)>>))>>), fl |-> {"i"}],
    \* /Sub\s+Total[:\s]*([0-9,]+\.?\d{0,2})/i
    subMatch |->
        [re |-> Cat(<<Lit(<<"S", "u", "b">>), Plus(Ch(Whitespace)), Lit(<<"T", "o",
            "t", "a", "l">>), Star(Ch(Whitespace \cup {":"})), Cap(1,
            Cat(<<Plus(Ch(Digits \cup {","})), Opt(Ch({"."})),
            Rep(Ch(Digits), 0, 2)>>))>>), fl |-> {"i"}]
    ]

\* /^[A-Z0-9\-\/\d]+$/i
structuredValuePattern ==
    [re |-> Cat(<<Bol, Plus(Ch(UpperLetters \cup Digits \cup {"-", "/"})), Eol>>),
        fl |-> {"i"}]
-----------------------------------------------------------------------------
(* String helpers of parseDocumentFields.  Confidences are in hundredths.  *)

\* null, where a string is expected
Null == <<"<null>">>

\* a character removed by a replace
Removed == ""

\* s.replace(/\s+/g, ' ')
CollapseWhitespace(s) ==
    LET marked == [k \in 1..Len(s) |->
                      IF ~IsWhitespace(s[k]) THEN s[k]
                      ELSE IF k > 1 /\ IsWhitespace(s[k - 1]) THEN Removed
                      ELSE " "]
    IN  SelectSeq(marked, LAMBDA c : c # Removed)

\* s.replace(/\n\s*/g, '\n'): the whitespace after a newline goes
CollapseAfterNewline(s) ==
    LET marked == [k \in 1..Len(s) |->
                      IF \E j \in 1..(k - 1) :
                            /\ s[j] = "\n"
                            /\ \A m \in j..k : IsWhitespace(s[m])
                      THEN Removed
                      ELSE s[k]]
    IN  SelectSeq(marked, LAMBDA c : c # Removed)

\* s.replace(/^\s*\n|\n\s*$/g, ''): the leading whitespace up to its last
\* newline, and the trailing whitespace from its first newline on
StripEdgeNewlines(s) ==
    LET afterLast(t, leadNl) ==
            IF leadNl = {} THEN t
            ELSE SubSeq(t, (CHOOSE k \in leadNl : \A j \in leadNl : j <= k) + 1,
                        Len(t))
        beforeFirst(t, tailNl) ==
            IF tailNl = {} THEN t
            ELSE SubSeq(t, 1, (CHOOSE k \in tailNl : \A j \in tailNl : k <= j) - 1)
        tail(s1) ==
            beforeFirst(s1, {k \in (Len(TrimEnd(s1)) + 1)..Len(s1) : s1[k] = "\n"})
    IN  tail(afterLast(s, {k \in 1..(Len(s) - Len(TrimStart(s))) : s[k] = "\n"}))

NotFoundInDocument ==
    <<"N", "o", "t", " ", "f", "o", "u", "n", "d", " ", "i", "n", " ",
      "d", "o", "c", "u", "m", "e", "n", "t">>

-----------------------------------------------------------------------------
(* calculateFieldConfidence *)

calculateFieldConfidenceNumberOnly(fieldName, value) ==
    IF value = Null \/ value = <<>> \/ value = NotFoundInDocument THEN 0
    ELSE IF Contains(fieldName, <<"N", "u", "m", "b", "e", "r">>)
    THEN (IF test(value, structuredValuePattern) THEN 95 ELSE 75)
    ELSE IF Contains(fieldName, <<"A", "d", "d", "r", "e", "s", "s">>)
    THEN (IF Len(value) > 10 THEN 85 ELSE 60)
    ELSE 80

calculateFieldConfidence(fieldName, value) ==
    IF value = Null \/ value = <<>> \/ value = NotFoundInDocument THEN 0
    ELSE IF \/ Contains(fieldName, <<"N", "u", "m", "b", "e", "r">>)
            \/ Contains(fieldName, <<"D", "a", "t", "e">>)
    THEN (IF test(value, structuredValuePattern) THEN 95 ELSE 75)
    ELSE IF Contains(fieldName, <<"A", "d", "d", "r", "e", "s", "s">>)
    THEN (IF Len(value) > 10 THEN 85 ELSE 60)
    ELSE 80

-----------------------------------------------------------------------------
(* extractFieldWithSimplePattern: the fallback patterns of six fields *)

extractFieldWithSimplePattern(text, fieldName) ==
    CASE \* 'PO Number'
         fieldName =
             <<"P", "O", " ", "N", "u", "m", "b", "e", "r">> ->
           LET either(m1, m2) == IF m1.ok THEN m1 ELSE m2
               group(m) == IF m.ok THEN m.groups[1][1] ELSE Null
               \* poMatch || poLabelMatch
               poMatch == either(match(text, simplePatterns.poMatch1),
                                 either(match(text, simplePatterns.poMatch2),
                                        match(text, simplePatterns.poMatch3)))
           IN  group(either(poMatch, match(text, simplePatterns.poLabelMatch)))
      [] \* 'Vendor Name'
         fieldName =
             <<"V", "e", "n", "d", "o", "r", " ", "N", "a", "m", "e">> ->
           LET either(m1, m2) == IF m1.ok THEN m1 ELSE m2
               group(m) == IF m.ok THEN m.groups[1][1] ELSE Null
           IN  group(either(match(text, simplePatterns.barkmanMatch),
                            match(text, simplePatterns.phenixMatch)))
      [] \* 'Ship To Address'
         fieldName =
             <<"S", "h", "i", "p", " ", "T", "o", " ", "A", "d", "d", "r",
               "e", "s", "s">> ->
           LET address(shipMatch) ==
                   IF shipMatch.ok
                   THEN Trim(CollapseWhitespace(Matched(text, shipMatch)))
                   ELSE Null
           IN  address(match(text, simplePatterns.shipMatch))
      [] \* 'Vendor Address'
         fieldName =
             <<"V", "e", "n", "d", "o", "r", " ", "A", "d", "d", "r", "e",
               "s", "s">> ->
           \* .replace(/\n/g, '\n') puts every newline back as it was
           LET address(vendorAddrMatch) ==
                   IF vendorAddrMatch.ok
                   THEN Trim(CollapseWhitespace(Matched(text, vendorAddrMatch)))
                   ELSE Null
           IN  address(match(text, simplePatterns.vendorAddrMatch))
      [] \* 'Total Amount'
         fieldName =
             <<"T", "o", "t", "a", "l", " ", "A", "m", "o", "u", "n", "t">> ->
           LET group(totalMatch) ==
                   IF totalMatch.ok THEN totalMatch.groups[1][1] ELSE Null
           IN  group(match(text, simplePatterns.totalMatch))
      [] \* 'Subtotal'
         fieldName =
             <<"S", "u", "b", "t", "o", "t", "a", "l">> ->
           LET group(subMatch) ==
                   IF subMatch.ok THEN subMatch.groups[1][1] ELSE Null
           IN  group(match(text, simplePatterns.subMatch))
      [] OTHER -> Null

-----------------------------------------------------------------------------
(* parseDocumentFields *)

\* the address limit of parseDocumentFields
AddressLimit == 300

\* the clean-up of an address value
CleanAddress(value) ==
    LET limited(v) == IF Len(v) > AddressLimit
                      THEN SubSeq(v, 1, AddressLimit) \o <<".", ".", ".">>
                      ELSE v
    IN  limited(Trim(CollapseAfterNewline(CollapseWhitespace(value))))

\* what one pattern yields for one field: the cleaned value, "" when the
\* pattern does not match, captures nothing or cleans to nothing
PatternValue(text, fieldName, pattern) ==
    LET cleaned(value) ==
            IF Contains(fieldName, <<"A", "d", "d", "r", "e", "s", "s">>)
            THEN CleanAddress(value)
            ELSE value
        valueOf(m) ==
            IF m.ok /\ m.groups[1] # <<>> /\ m.groups[1][1] # <<>>
            THEN Trim(StripEdgeNewlines(cleaned(Trim(m.groups[1][1]))))
            ELSE <<>>
    IN  valueOf(match(text, pattern))

RECURSIVE LastPatternValue(_, _, _)
LastPatternValue(text, fieldName, fieldPatterns) ==
    IF Len(fieldPatterns) = 0 THEN <<>>
    ELSE LET orEarlier(value) ==
                 IF value # <<>> THEN value
                 ELSE LastPatternValue(text, fieldName,
                                       SubSeq(fieldPatterns, 1, Len(fieldPatterns) - 1))
         IN  orEarlier(PatternValue(text, fieldName,
                                    fieldPatterns[Len(fieldPatterns)]))

\* the inner loop: the value of the first pattern that yields one
RECURSIVE FirstPatternValue(_, _, _)
FirstPatternValue(text, fieldName, fieldPatterns) ==
    IF Len(fieldPatterns) = 0 THEN <<>>
    ELSE LET orNext(value) ==
                 IF value # <<>> THEN value
                 ELSE FirstPatternValue(text, fieldName, Tail(fieldPatterns))
         IN  orNext(PatternValue(text, fieldName, Head(fieldPatterns)))

FieldEntryEmptyWhenMissing(text, fieldName, fieldPatterns) ==
    LET entry(value) ==
            [key |-> fieldName, value |-> value,
             confidence |-> calculateFieldConfidence(fieldName, value)]
    IN  entry(FirstPatternValue(text, fieldName, fieldPatterns))

\* one turn of the outer loop: the entry pushed for one field
FieldEntry(text, fieldName, fieldPatterns) ==
    LET fallback(simpleValue) ==
            IF simpleValue # Null /\ simpleValue # <<>>
            THEN [key |-> fieldName, value |-> simpleValue, confidence |-> 70]
            ELSE [key |-> fieldName, value |-> NotFoundInDocument, confidence |-> 0]
        entry(value) ==
            IF value # <<>>
            THEN [key |-> fieldName, value |-> value,
                  confidence |-> calculateFieldConfidence(fieldName, value)]
            ELSE fallback(extractFieldWithSimplePattern(text, fieldName))
    IN  entry(FirstPatternValue(text, fieldName, fieldPatterns))

parseDocumentFields(text) ==
    LET entries(all) ==
            [k \in 1..Len(all) |->
                FieldEntry(text, all[k].fieldName, all[k].fieldPatterns)]
    IN  entries(patterns)

-----------------------------------------------------------------------------
(* detectDocumentType *)

detectDocumentTypeCaseSensitive(text) ==
    IF \* 'invoice'
            Contains(text,
                <<"i", "n", "v", "o", "i", "c", "e">>)
    THEN "Invoice"
    ELSE IF \* 'receipt'
            Contains(text,
                <<"r", "e", "c", "e", "i", "p", "t">>)
    THEN "Receipt"
    ELSE IF \* 'purchase order'
            Contains(text,
                <<"p", "u", "r", "c", "h", "a", "s", "e", " ", "o", "r",
                  "d", "e", "r">>)
    THEN "Purchase Order"
    ELSE IF \* 'bill of lading'
            Contains(text,
                <<"b", "i", "l", "l", " ", "o", "f", " ", "l", "a", "d",
                  "i", "n", "g">>)
    THEN "Bill of Lading"
    ELSE IF \* 'packing slip'
            Contains(text,
                <<"p", "a", "c", "k", "i", "n", "g", " ", "s", "l", "i", "p">>)
    THEN "Packing Slip"
    ELSE "Business Document"

detectDocumentType(text) ==
    LET lowerText == toLowerCase(text) IN
    IF \* 'invoice'
            Contains(lowerText,
                <<"i", "n", "v", "o", "i", "c", "e">>)
    THEN "Invoice"
    ELSE IF \* 'receipt'
            Contains(lowerText,
                <<"r", "e", "c", "e", "i", "p", "t">>)
    THEN "Receipt"
    ELSE IF \* 'purchase order'
            Contains(lowerText,
                <<"p", "u", "r", "c", "h", "a", "s", "e", " ", "o", "r",
                  "d", "e", "r">>)
    THEN "Purchase Order"
    ELSE IF \* 'bill of lading'
            Contains(lowerText,
                <<"b", "i", "l", "l", " ", "o", "f", " ", "l", "a", "d",
                  "i", "n", "g">>)
    THEN "Bill of Lading"
    ELSE IF \* 'packing slip'
            Contains(lowerText,
                <<"p", "a", "c", "k", "i", "n", "g", " ", "s", "l", "i", "p">>)
    THEN "Packing Slip"
    ELSE "Business Document"

\* fragments of the texts detectDocumentType is called on
TypeFragments == [
    \* "This is a purchase order"
    purchaseOrder |->
        <<"T", "h", "i", "s", " ", "i", "s", " ", "a", " ", "p", "u", "r",
          "c", "h", "a", "s", "e", " ", "o", "r", "d", "e", "r">>,
    \* "Invoice #12345 for services"
    invoice |->
        <<"I", "n", "v", "o", "i", "c", "e", " ", "#", "1", "2", "3", "4",
          "5", " ", "f", "o", "r", " ", "s", "e", "r", "v", "i", "c", "e",
          "s">>,
    \* "RECEIPT #1"
    receipt |->
        <<"R", "E", "C", "E", "I", "P", "T", " ", "#", "1">>,
    \* " Bill of Lading "
    billOfLading |->
        <<" ", "B", "i", "l", "l", " ", "o", "f", " ", "L", "a", "d", "i",
          "n", "g", " ">>,
    \* "Packing Slip for order"
    packingSlip |->
        <<"P", "a", "c", "k", "i", "n", "g", " ", "S", "l", "i", "p", " ",
          "f", "o", "r", " ", "o", "r", "d", "e", "r">>,
    \* "Purchase"
    purchase |->
        <<"P", "u", "r", "c", "h", "a", "s", "e">>,
    \* " Order"
    order |->
        <<" ", "O", "r", "d", "e", "r">>,
    \* "Random business document"
    random |->
        <<"R", "a", "n", "d", "o", "m", " ", "b", "u", "s", "i", "n", "e",
          "s", "s", " ", "d", "o", "c", "u", "m", "e", "n", "t">>
    ]

\* nothing, one fragment, two fragments
TypeTexts ==
    {<<>>}
    \cup {TypeFragments[a] : a \in DOMAIN TypeFragments}
    \cup {TypeFragments[a] \o TypeFragments[b] :
            a \in DOMAIN TypeFragments, b \in DOMAIN TypeFragments}

-----------------------------------------------------------------------------
(* extractGenericTables *)

\* the loop of extractGenericTables from line k on
RECURSIVE GenericTablesFrom(_, _, _, _)
GenericTablesFrom(lines, k, tables, currentTable) ==
    IF k > Len(lines) THEN tables
    ELSE
        LET \* /\s{2,}|\t/
            columnSeparator ==
                [re |-> Alt(<<Rep(Ch(Whitespace), 2, Inf), Ch({"\t"})>>),
                 fl |-> {}]
            widest(widths) == CHOOSE w \in widths : \A v \in widths : v <= w
            \* columns is line.trim() split at the separator
            isRow(line, columns) == Len(columns) >= 2 /\ Len(line) > 0
        IN  IF isRow(Trim(lines[k]), split(Trim(lines[k]), columnSeparator))
            THEN GenericTablesFrom(lines, k + 1, tables,
                     Append(currentTable,
                            [content |-> Trim(lines[k]),
                             rowIndex |-> Len(currentTable),
                             columnIndex |-> 0,
                             confidence |-> 80]))
            ELSE IF Len(currentTable) > 0
            THEN GenericTablesFrom(lines, k + 1,
                     IF Len(currentTable) >= 2
                     THEN Append(tables,
                            [tableName |-> "Generic Table",
                             rowCount |-> Len(currentTable),
                             columnCount |->
                                 widest({Len(split(currentTable[r].content,
                                                   columnSeparator)) :
                                            r \in DOMAIN currentTable}),
                             cells |-> currentTable])
                     ELSE tables,
                     <<>>)
            ELSE GenericTablesFrom(lines, k + 1, tables, currentTable)

extractGenericTables(text) ==
    GenericTablesFrom(splitOn(text, "\n"), 1, <<>>, <<>>)

\* the texts of up to n lines, each line one of: three columns, two columns
\* around a tab with blanks at the ends, one column, blank; the first line may
\* be empty
RECURSIVE TableTexts(_)
TableTexts(n) ==
    LET lines == {
            \* "A  B  C"
            <<"A", " ", " ", "B", " ", " ", "C">>,
            \* " D\tE "
            <<" ", "D", "\t", "E", " ">>,
            \* "x y"
            <<"x", " ", "y">>,
            \* "  "
            <<" ", " ">>
            }
    IN  IF n = 0 THEN {}
        ELSE IF n = 1 THEN lines \cup {<<>>}
        ELSE TableTexts(n - 1)
             \cup {t \o <<"\n">> \o l : t \in TableTexts(n - 1), l \in lines}

-----------------------------------------------------------------------------
(* extractLineItems *)

\* the first loop of extractLineItems: headerEndIndex, -1 when no header is
\* found; i and j count from 0 as in the source, lines[i + 1] is its lines[i]
HeaderEndIndex(lines) ==
    LET headerPattern(i) ==
            LET upTo[j \in 0..10] ==
                    IF j = 0 THEN <<>>
                    ELSE IF i + (j - 1) < Len(lines)
                    THEN upTo[j - 1] \o Trim(lines[i + j]) \o <<" ">>
                    ELSE upTo[j - 1]
            IN  upTo[10]
        isHeader(pattern) ==
            /\ Contains(pattern, <<"I", "T", "E", "M">>)
            /\ Contains(pattern, <<"U", "N", "I", "T">>)
            /\ Contains(pattern, <<"Q", "T", "Y">>)
            /\ Contains(pattern, <<"D", "E", "S", "C", "R", "I", "P", "T", "I", "O", "N">>)
        endOfFirst(headers) ==
            IF headers = {} THEN -1
            ELSE (CHOOSE i \in headers : \A h \in headers : i <= h) + 10
    IN  endOfFirst({i \in 0..(Len(lines) - 1) :
                       /\ Trim(lines[i + 1]) = <<"I", "T", "E", "M">>
                       /\ isHeader(headerPattern(i))})

\* the item data collected from the 11 lines after the item number at line i
ItemData(lines, i, itemNumber) ==
    LET dataLine(j) == IF i + j < Len(lines) THEN Trim(lines[i + j + 1]) ELSE <<>>
        isDate(s) == test(s, \* /^\d{4}-\d{2}-\d{2}$/
                          [re |-> Cat(<<Bol, Rep(Ch(Digits), 4, 4), Ch({"-"}), Rep(Ch(Digits), 2, 2), Ch({"-"}), Rep(Ch(Digits), 2, 2), Eol>>), fl |-> {}])
        isText(s) ==
            /\ Len(s) # 0
            /\ ~test(s, \* /^\d/
                     [re |-> Cat(<<Bol, Ch(Digits)>>), fl |-> {}])
            /\ ~Contains(s, <<"$">>)
            /\ ~isDate(s)
        group(m) == IF m.ok THEN m.groups[1][1] ELSE <<>>
        amount(s) == group(match(s, \* /\$\s*([0-9,]+\.?\d{0,2})/
                                 [re |-> Cat(<<Ch({"$"}), Star(Ch(Whitespace)), Cap(1, Cat(<<Plus(Ch(Digits \cup {","})), Opt(Ch({"."})), Rep(Ch(Digits), 0, 2)>>))>>), fl |-> {}]))
        textOf(s) == IF isText(s) THEN s ELSE <<>>
        \* descriptionLine1 and descriptionLine2 joined by a blank
        joined(line1, line2) ==
            IF line2 # <<>>
            THEN IF line1 # <<>> THEN line1 \o <<" ">> \o line2 ELSE line2
            ELSE line1
    IN  [itemNumber |-> itemNumber,
         unit |->
            IF dataLine(1) = <<"E", "A">>
               \/ test(dataLine(1), \* /^[A-Z]{1,3}$/
                       [re |-> Cat(<<Bol, Rep(Ch(UpperLetters), 1, 3), Eol>>), fl |-> {}])
            THEN dataLine(1) ELSE <<>>,
         quantity |->
            IF test(dataLine(2), \* /^\d+$/
                    [re |-> Cat(<<Bol, Plus(Ch(Digits)), Eol>>), fl |-> {}])
            THEN dataLine(2) ELSE <<>>,
         partNumber |->
            IF test(dataLine(4), \* /^\d{10,}$/
                    [re |-> Cat(<<Bol, Rep(Ch(Digits), 10, Inf), Eol>>), fl |-> {}])
            THEN dataLine(4) ELSE <<>>,
         description |->
            joined(textOf(dataLine(5)), textOf(dataLine(6))),
         dueDate |-> IF isDate(dataLine(7)) THEN dataLine(7) ELSE <<>>,
         price |-> amount(dataLine(8)),
         taxPercent |->
            IF test(dataLine(9), \* /^\d+$/
                    [re |-> Cat(<<Bol, Plus(Ch(Digits)), Eol>>), fl |-> {}])
               /\ parseInt(dataLine(9)) <= 30
            THEN dataLine(9) \o <<"%">> ELSE <<>>,
         discount |->
            IF test(dataLine(10), \* /^\d+%$/
                    [re |-> Cat(<<Bol, Plus(Ch(Digits)), Ch({"%"}), Eol>>), fl |-> {}])
            THEN dataLine(10) ELSE <<>>,
         lineTotal |-> amount(dataLine(11))]

\* the second loop of extractLineItems with `i += 10` after an item: the loop
\* examines the eleventh line after the item number
RECURSIVE LineItemsFromShortStride(_, _, _, _)
LineItemsFromShortStride(lines, i, headerEndIndex, lineItems) ==
    IF i >= Len(lines) THEN lineItems
    ELSE
        LET pushed(itemData) ==
                IF \/ itemData.unit # <<>>
                   \/ itemData.quantity # <<>>
                   \/ itemData.partNumber # <<>>
                   \/ itemData.description # <<>>
                THEN Append(lineItems, itemData)
                ELSE lineItems
            step(line, itemNumberMatch) ==
                IF \/ Contains(line, <<"S", "U", "B", "T", "O", "T", "A", "L">>)
                   \/ Contains(line, <<"G", "R", "A", "N", "D", " ", "T", "O", "T", "A", "L">>)
                   \/ (line = <<"I", "T", "E", "M">> /\ i > headerEndIndex + 20)
                THEN lineItems
                ELSE IF Len(line) = 0
                THEN LineItemsFromShortStride(lines, i + 1, headerEndIndex, lineItems)
                ELSE IF itemNumberMatch.ok /\ parseInt(itemNumberMatch.groups[1][1]) >= 10
                THEN LineItemsFromShortStride(lines, i + 11, headerEndIndex,
                         pushed(ItemData(lines, i, itemNumberMatch.groups[1][1])))
                ELSE LineItemsFromShortStride(lines, i + 1, headerEndIndex, lineItems)
            atLine(line) ==
                step(line, match(line, \* /^(\d{2,3})$/
                                 [re |-> Cat(<<Bol, Cap(1, Rep(Ch(Digits), 2, 3)), Eol>>), fl |-> {}]))
        IN  atLine(Trim(lines[i + 1]))

\* the second loop of extractLineItems from line i on
RECURSIVE LineItemsFrom(_, _, _, _)
LineItemsFrom(lines, i, headerEndIndex, lineItems) ==
    IF i >= Len(lines) THEN lineItems
    ELSE
        LET pushed(itemData) ==
                IF \/ itemData.unit # <<>>
                   \/ itemData.quantity # <<>>
                   \/ itemData.partNumber # <<>>
                   \/ itemData.description # <<>>
                THEN Append(lineItems, itemData)
                ELSE lineItems
            step(line, itemNumberMatch) ==
                IF \/ Contains(line, <<"S", "U", "B", "T", "O", "T", "A", "L">>)
                   \/ Contains(line, <<"G", "R", "A", "N", "D", " ", "T", "O", "T", "A", "L">>)
                   \/ (line = <<"I", "T", "E", "M">> /\ i > headerEndIndex + 20)
                THEN lineItems
                ELSE IF Len(line) = 0
                THEN LineItemsFrom(lines, i + 1, headerEndIndex, lineItems)
                ELSE IF itemNumberMatch.ok /\ parseInt(itemNumberMatch.groups[1][1]) >= 10
                THEN LineItemsFrom(lines, i + 12, headerEndIndex,
                         pushed(ItemData(lines, i, itemNumberMatch.groups[1][1])))
                ELSE LineItemsFrom(lines, i + 1, headerEndIndex, lineItems)
            atLine(line) ==
                step(line, match(line, \* /^(\d{2,3})$/
                                 [re |-> Cat(<<Bol, Cap(1, Rep(Ch(Digits), 2, 3)), Eol>>), fl |-> {}]))
        IN  atLine(Trim(lines[i + 1]))

extractLineItems(text) ==
    LET itemsAfter(lines, headerEndIndex) ==
            IF headerEndIndex = -1 THEN <<>>
            ELSE LineItemsFrom(lines, headerEndIndex, headerEndIndex, <<>>)
        itemsOf(lines) == itemsAfter(lines, HeaderEndIndex(lines))
    IN  itemsOf(splitOn(text, "\n"))

\* the texts extractLineItems is called on: an optional first line, a header
\* (one token per line: all ten, four, or three without QTY; or the four on
\* one line), blank lines, an item block of twelve lines, an optional total;
\* and the ten-line header with a first item, a line after it, a second item
\* and a second header with a third item
ItemTexts ==
    LET
        \* before the header
        before == {
            \* ""
            <<>>,
            \* "Purchase Order\n"
            <<"P", "u", "r", "c", "h", "a", "s", "e", " ", "O", "r", "d",
              "e", "r", "\n">>
            }
        \* the header
        header == {
            \* "ITEM\nUNIT\nQTY\nPART NO\nDESCRIPTION\nDUE DATE\nPRICE\nTAX%\nDISC\nLINE TOTAL\n"
            <<"I", "T", "E", "M", "\n", "U", "N", "I", "T", "\n", "Q", "T",
              "Y", "\n", "P", "A", "R", "T", " ", "N", "O", "\n", "D", "E",
              "S", "C", "R", "I", "P", "T", "I", "O", "N", "\n", "D", "U",
              "E", " ", "D", "A", "T", "E", "\n", "P", "R", "I", "C", "E",
              "\n", "T", "A", "X", "%", "\n", "D", "I", "S", "C", "\n",
              "L", "I", "N", "E", " ", "T", "O", "T", "A", "L", "\n">>,
            \* "ITEM\nUNIT\nQTY\nDESCRIPTION\n"
            <<"I", "T", "E", "M", "\n", "U", "N", "I", "T", "\n", "Q", "T",
              "Y", "\n", "D", "E", "S", "C", "R", "I", "P", "T", "I", "O",
              "N", "\n">>,
            \* "ITEM\nUNIT\nDESCRIPTION\n"
            <<"I", "T", "E", "M", "\n", "U", "N", "I", "T", "\n", "D", "E",
              "S", "C", "R", "I", "P", "T", "I", "O", "N", "\n">>,
            \* "ITEM UNIT QTY DESCRIPTION\n"
            <<"I", "T", "E", "M", " ", "U", "N", "I", "T", " ", "Q", "T",
              "Y", " ", "D", "E", "S", "C", "R", "I", "P", "T", "I", "O",
              "N", "\n">>
            }
        \* blank lines between the header and the item
        blank == {
            \* ""
            <<>>,
            \* "\n"
            <<"\n">>,
            \* "\n\n\n\n\n\n"
            <<"\n", "\n", "\n", "\n", "\n", "\n">>
            }
        \* the item number
        itemNumber == {
            \* "10\n"
            <<"1", "0", "\n">>,
            \* "125\n"
            <<"1", "2", "5", "\n">>,
            \* "7\n"
            <<"7", "\n">>
            }
        \* the two description lines
        description == {
            \* "Honey Jar\nAmber\n"
            <<"H", "o", "n", "e", "y", " ", "J", "a", "r", "\n", "A", "m",
              "b", "e", "r", "\n">>,
            \* "12oz Jar\nAmber\n"
            <<"1", "2", "o", "z", " ", "J", "a", "r", "\n", "A", "m", "b",
              "e", "r", "\n">>
            }
        \* the tax line
        tax == {
            \* "8\n"
            <<"8", "\n">>,
            \* "10\n"
            <<"1", "0", "\n">>
            }
        \* after the item
        after == {
            \* ""
            <<>>,
            \* "SUBTOTAL\n$ 22.50\n"
            <<"S", "U", "B", "T", "O", "T", "A", "L", "\n", "$", " ", "2",
              "2", ".", "5", "0", "\n">>
            }
        \* unit, quantity, spacer, part number
        first ==
            <<"E", "A", "\n", "5", "\n", "\n", "1", "2", "3", "4", "5",
              "6", "7", "8", "9", "0", "\n">>
        \* due date, price
        middle ==
            <<"2", "0", "2", "4", "-", "0", "1", "-", "1", "5", "\n", "$",
              " ", "4", ".", "5", "0", "\n">>
        \* discount, line total
        last ==
            <<"5", "%", "\n", "$", " ", "2", "2", ".", "5", "0">>
        \* the ten-line header
        tenLines ==
            <<"I", "T", "E", "M", "\n", "U", "N", "I", "T", "\n", "Q", "T",
              "Y", "\n", "P", "A", "R", "T", " ", "N", "O", "\n", "D", "E",
              "S", "C", "R", "I", "P", "T", "I", "O", "N", "\n", "D", "U",
              "E", " ", "D", "A", "T", "E", "\n", "P", "R", "I", "C", "E",
              "\n", "T", "A", "X", "%", "\n", "D", "I", "S", "C", "\n",
              "L", "I", "N", "E", " ", "T", "O", "T", "A", "L", "\n">>
        \* a first item: of twelve lines, of twelve lines without unit, quantity,
        \* part number and description, of eleven lines, of ten lines
        firstBlock == {
            \* "10\nEA\n12\n\n1234567890\nHoney Jar\nAmber\n2024-01-15\n$ 4.50\n8\n5%\n$ 22.50\n"
            <<"1", "0", "\n", "E", "A", "\n", "1", "2", "\n", "\n", "1",
              "2", "3", "4", "5", "6", "7", "8", "9", "0", "\n", "H", "o",
              "n", "e", "y", " ", "J", "a", "r", "\n", "A", "m", "b", "e",
              "r", "\n", "2", "0", "2", "4", "-", "0", "1", "-", "1", "5",
              "\n", "$", " ", "4", ".", "5", "0", "\n", "8", "\n", "5",
              "%", "\n", "$", " ", "2", "2", ".", "5", "0", "\n">>,
            \* "10\n\n\n\n\n\n\n2024-01-15\n$ 4.50\n8\n5%\n$ 22.50\n"
            <<"1", "0", "\n", "\n", "\n", "\n", "\n", "\n", "\n", "2", "0",
              "2", "4", "-", "0", "1", "-", "1", "5", "\n", "$", " ", "4",
              ".", "5", "0", "\n", "8", "\n", "5", "%", "\n", "$", " ",
              "2", "2", ".", "5", "0", "\n">>,
            \* "10\nEA\n12\n\n1234567890\nHoney Jar\nAmber\n2024-01-15\n$ 4.50\n8\n5%\n"
            <<"1", "0", "\n", "E", "A", "\n", "1", "2", "\n", "\n", "1",
              "2", "3", "4", "5", "6", "7", "8", "9", "0", "\n", "H", "o",
              "n", "e", "y", " ", "J", "a", "r", "\n", "A", "m", "b", "e",
              "r", "\n", "2", "0", "2", "4", "-", "0", "1", "-", "1", "5",
              "\n", "$", " ", "4", ".", "5", "0", "\n", "8", "\n", "5",
              "%", "\n">>,
            \* "10\nEA\n12\n\n1234567890\nHoney Jar\nAmber\n2024-01-15\n$ 4.50\n8\n"
            <<"1", "0", "\n", "E", "A", "\n", "1", "2", "\n", "\n", "1",
              "2", "3", "4", "5", "6", "7", "8", "9", "0", "\n", "H", "o",
              "n", "e", "y", " ", "J", "a", "r", "\n", "A", "m", "b", "e",
              "r", "\n", "2", "0", "2", "4", "-", "0", "1", "-", "1", "5",
              "\n", "$", " ", "4", ".", "5", "0", "\n", "8", "\n">>
            }
        \* the line after the first item
        between == {
            \* ""
            <<>>,
            \* "SUBTOTAL\n"
            <<"S", "U", "B", "T", "O", "T", "A", "L", "\n">>,
            \* "GRAND TOTAL: $ 22.50\n"
            <<"G", "R", "A", "N", "D", " ", "T", "O", "T", "A", "L", ":",
              " ", "$", " ", "2", "2", ".", "5", "0", "\n">>,
            \* "Notes\n"
            <<"N", "o", "t", "e", "s", "\n">>
            }
        \* a second item
        secondBlock == {
            \* ""
            <<>>,
            \* "20\nEA\n3\n"
            <<"2", "0", "\n", "E", "A", "\n", "3", "\n">>
            }
        \* a second header and a third item
        ending == {
            \* ""
            <<>>,
            \* "\n\n\n\n\n\n\n\n\n\nITEM\n30\nEA\n1\n"
            <<"\n", "\n", "\n", "\n", "\n", "\n", "\n", "\n", "\n", "\n",
              "I", "T", "E", "M", "\n", "3", "0", "\n", "E", "A", "\n",
              "1", "\n">>
            }
    IN  {b \o h \o g \o n \o first \o d \o middle \o t \o last \o a :
            b \in before, h \in header, g \in blank, n \in itemNumber,
            d \in description, t \in tax, a \in after}
        \cup {tenLines \o f \o m \o s \o e :
                f \in firstBlock, m \in between, s \in secondBlock,
                e \in ending}

\* the contents the AI answers with: objects in JSON, bare or fenced, with or
\* without a sentence before the fence, and texts that are no JSON
AIContents ==
    LET
        \* objects
        objects == {
            \* {"vendorName":"Acme LLC"}
            <<"{", "\"", "v", "e", "n", "d", "o", "r", "N", "a", "m", "e",
              "\"", ":", "\"", "A", "c", "m", "e", " ", "L", "L", "C",
              "\"", "}">>,
            \* {"poNumber":"123","carrier":"UPS"}
            <<"{", "\"", "p", "o", "N", "u", "m", "b", "e", "r", "\"", ":",
              "\"", "1", "2", "3", "\"", ",", "\"", "c", "a", "r", "r",
              "i", "e", "r", "\"", ":", "\"", "U", "P", "S", "\"", "}">>,
            \* {"vendor":{"name":"Nested Vendor","address":"123 Main St"}}
            <<"{", "\"", "v", "e", "n", "d", "o", "r", "\"", ":", "{",
              "\"", "n", "a", "m", "e", "\"", ":", "\"", "N", "e", "s",
              "t", "e", "d", " ", "V", "e", "n", "d", "o", "r", "\"", ",",
              "\"", "a", "d", "d", "r", "e", "s", "s", "\"", ":", "\"",
              "1", "2", "3", " ", "M", "a", "i", "n", " ", "S", "t", "\"",
              "}", "}">>,
            \* {"po_number": 42, "paid": true, "items": [1, "x"], "note": null}
            <<"{", "\"", "p", "o", "_", "n", "u", "m", "b", "e", "r", "\"",
              ":", " ", "4", "2", ",", " ", "\"", "p", "a", "i", "d", "\"",
              ":", " ", "t", "r", "u", "e", ",", " ", "\"", "i", "t", "e",
              "m", "s", "\"", ":", " ", "[", "1", ",", " ", "\"", "x",
              "\"", "]", ",", " ", "\"", "n", "o", "t", "e", "\"", ":",
              " ", "n", "u", "l", "l", "}">>,
            \* {"order":{"date":"2024-01-15","shipping":{"address":"1 Rd"}},"sub":{"total":5}}
            <<"{", "\"", "o", "r", "d", "e", "r", "\"", ":", "{", "\"",
              "d", "a", "t", "e", "\"", ":", "\"", "2", "0", "2", "4", "-",
              "0", "1", "-", "1", "5", "\"", ",", "\"", "s", "h", "i", "p",
              "p", "i", "n", "g", "\"", ":", "{", "\"", "a", "d", "d", "r",
              "e", "s", "s", "\"", ":", "\"", "1", " ", "R", "d", "\"",
              "}", "}", ",", "\"", "s", "u", "b", "\"", ":", "{", "\"",
              "t", "o", "t", "a", "l", "\"", ":", "5", "}", "}">>,
            \* {}
            <<"{", "}">>,
            \* {"vendorName":"Test Vendor","poNumber":"PO123","totalAmount":"500.00"}
            <<"{", "\"", "v", "e", "n", "d", "o", "r", "N", "a", "m", "e",
              "\"", ":", "\"", "T", "e", "s", "t", " ", "V", "e", "n", "d",
              "o", "r", "\"", ",", "\"", "p", "o", "N", "u", "m", "b", "e",
              "r", "\"", ":", "\"", "P", "O", "1", "2", "3", "\"", ",",
              "\"", "t", "o", "t", "a", "l", "A", "m", "o", "u", "n", "t",
              "\"", ":", "\"", "5", "0", "0", ".", "0", "0", "\"", "}">>,
            \* {"vendor":"Acme","vendorName":"Acme LLC"}
            <<"{", "\"", "v", "e", "n", "d", "o", "r", "\"", ":", "\"",
              "A", "c", "m", "e", "\"", ",", "\"", "v", "e", "n", "d", "o",
              "r", "N", "a", "m", "e", "\"", ":", "\"", "A", "c", "m", "e",
              " ", "L", "L", "C", "\"", "}">>,
            \* {"vendorName":"Not found","poNumber":"PO123"}
            <<"{", "\"", "v", "e", "n", "d", "o", "r", "N", "a", "m", "e",
              "\"", ":", "\"", "N", "o", "t", " ", "f", "o", "u", "n", "d",
              "\"", ",", "\"", "p", "o", "N", "u", "m", "b", "e", "r",
              "\"", ":", "\"", "P", "O", "1", "2", "3", "\"", "}">>
            }
        \* no JSON
        texts == {
            \* Vendor: Acme LLC\nTotal - Not found\nFax: N/A\nThank you\n : none\nNotes:  \nPO Number - ABC123
            <<"V", "e", "n", "d", "o", "r", ":", " ", "A", "c", "m", "e",
              " ", "L", "L", "C", "\n", "T", "o", "t", "a", "l", " ", "-",
              " ", "N", "o", "t", " ", "f", "o", "u", "n", "d", "\n", "F",
              "a", "x", ":", " ", "N", "/", "A", "\n", "T", "h", "a", "n",
              "k", " ", "y", "o", "u", "\n", " ", ":", " ", "n", "o", "n",
              "e", "\n", "N", "o", "t", "e", "s", ":", " ", " ", "\n", "P",
              "O", " ", "N", "u", "m", "b", "e", "r", " ", "-", " ", "A",
              "B", "C", "1", "2", "3">>,
            \* \n    Vendor Name: Test Company\n    PO Number: ABC123\n    Total: $1,000.00\n    Status: Not found\n  
            <<"\n", " ", " ", " ", " ", "V", "e", "n", "d", "o", "r", " ",
              "N", "a", "m", "e", ":", " ", "T", "e", "s", "t", " ", "C",
              "o", "m", "p", "a", "n", "y", "\n", " ", " ", " ", " ", "P",
              "O", " ", "N", "u", "m", "b", "e", "r", ":", " ", "A", "B",
              "C", "1", "2", "3", "\n", " ", " ", " ", " ", "T", "o", "t",
              "a", "l", ":", " ", "$", "1", ",", "0", "0", "0", ".", "0",
              "0", "\n", " ", " ", " ", " ", "S", "t", "a", "t", "u", "s",
              ":", " ", "N", "o", "t", " ", "f", "o", "u", "n", "d", "\n",
              " ", " ">>,
            \* \n  Vendor Name - Test Company\n  PO Number: ABC123\n  
            <<"\n", " ", " ", "V", "e", "n", "d", "o", "r", " ", "N", "a",
              "m", "e", " ", "-", " ", "T", "e", "s", "t", " ", "C", "o",
              "m", "p", "a", "n", "y", "\n", " ", " ", "P", "O", " ", "N",
              "u", "m", "b", "e", "r", ":", " ", "A", "B", "C", "1", "2",
              "3", "\n", " ", " ">>,
            \* Invalid JSON: {vendorName: "Test", invalid syntax}
            <<"I", "n", "v", "a", "l", "i", "d", " ", "J", "S", "O", "N",
              ":", " ", "{", "v", "e", "n", "d", "o", "r", "N", "a", "m",
              "e", ":", " ", "\"", "T", "e", "s", "t", "\"", ",", " ", "i",
              "n", "v", "a", "l", "i", "d", " ", "s", "y", "n", "t", "a",
              "x", "}">>,
            \* 
            <<>>,
            \* {"vendorName":"Acme LLC"
            <<"{", "\"", "v", "e", "n", "d", "o", "r", "N", "a", "m", "e",
              "\"", ":", "\"", "A", "c", "m", "e", " ", "L", "L", "C", "\"">>,
            \* Sub-Total: 10\nStatus: not found\nRef: N/A.\n- Vendor: Acme
            <<"S", "u", "b", "-", "T", "o", "t", "a", "l", ":", " ", "1",
              "0", "\n", "S", "t", "a", "t", "u", "s", ":", " ", "n", "o",
              "t", " ", "f", "o", "u", "n", "d", "\n", "R", "e", "f", ":",
              " ", "N", "/", "A", ".", "\n", "-", " ", "V", "e", "n", "d",
              "o", "r", ":", " ", "A", "c", "m", "e">>
            }
        \* ```json
        jsonFence ==
            <<Backtick, Backtick, Backtick, "j", "s", "o", "n">>
        \* ```
        fence ==
            <<Backtick, Backtick, Backtick>>
        \* Here is the data:
        sentence ==
            <<"H", "e", "r", "e", " ", "i", "s", " ", "t", "h", "e", " ",
              "d", "a", "t", "a", ":">>
    IN  objects
        \cup {jsonFence \o <<"\n">> \o o \o <<"\n">> \o fence : o \in objects}
        \cup {fence \o <<"\n">> \o o \o <<"\n">> \o fence : o \in objects}
        \cup {sentence \o <<"\n">> \o jsonFence \o <<"\n">> \o o \o <<"\n">> \o fence :
                o \in objects}
        \cup texts

-----------------------------------------------------------------------------
(* Calls of one method on its own, as the unit tests make them: the        *)
(* service handles no request meanwhile.                                    *)

serviceVars ==
    <<apiKey, apiUrl, deploymentName, apiVersion, file, pdfContent,
      tempExists, outputs, now, faults, pc, mode, pdfText, candidates,
      attemptCount, lastError, inFlight, extractedData, aiError, failure,
      outcome, calls, invoked, writes, deletes, lastSettled>>

NoRequest ==
    /\ apiKey = Undefined
    /\ apiUrl = Undefined
    /\ deploymentName = Undefined
    /\ apiVersion = Undefined
    /\ file = [originalname |-> "test-document.pdf", path |-> Undefined]
    /\ pdfContent = [corrupt |-> FALSE, text |-> <<>>]
    /\ tempExists = FALSE
    /\ outputs = {}
    /\ now = 0
    /\ faults = 0
    /\ pc = "start"
    /\ mode = "none"
    /\ pdfText = <<>>
    /\ candidates = <<>>
    /\ attemptCount = 0
    /\ lastError = <<>>
    /\ inFlight = 0
    /\ extractedData = <<>>
    /\ aiError = <<>>
    /\ failure = <<>>
    /\ outcome = Pending
    /\ calls = <<>>
    /\ invoked = {}
    /\ writes = 0
    /\ deletes = 0
    /\ lastSettled = <<>>

\* the call returns value
Return(value) ==
    /\ ret = <<>>
    /\ ret' = <<value>>
    /\ UNCHANGED <<fn, args, serviceVars>>

-----------------------------------------------------------------------------
(* DocumentController.uploadDocument.  The controller is called with req   *)
(* and res: args.file is req.file (<<>> when there is none), ret is what   *)
(* has been sent on res, outcome is how extractData settled, pc the        *)
(* position inside uploadDocument.                                          *)

\* res.status(400).json({ error: 'No file uploaded' })
NoFileResponse == [status |-> 400, body |-> [error |-> <<"No file uploaded">>]]

\* res.status(500).json({ error: error.message })
ErrorResponseWithMessage(error) == [status |-> 500, body |-> [error |-> error]]

\* res.status(500).json({ error: 'An error occurred while uploading the document' })
ErrorResponse(error) ==
    [status |-> 500,
     body |-> [error |-> <<"An error occurred while uploading the document">>]]

\* res.status(200).json(extractedData)
DataResponse(data) == [status |-> 200, body |-> data]

\* what extractData resolves with for a file: the three envelopes it builds
ExtractDataResults(f) ==
    LET written(data, t) == [data EXCEPT !.outputFile = OutputFileName(t, f)]
        pairs == ProbePairs(Undefined, Undefined)
        contents == {AIContentOf(b) : b \in ResponseBodies}
    IN  {LocalOnlyResult(written(LocalExtractedData(f), t)) : t \in 0..MaxTime}
        \cup {AISuccessResult(written(AIExtractedData(f, c, pairs[k]), t)) :
                c \in {x \in contents : x.present}, k \in DOMAIN pairs, t \in 0..MaxTime}
        \cup {FallbackResult(written(LocalExtractedData(f), t), WrapAIError(e), t) :
                e \in {NoChoicesError, NoContentError}, t \in 0..MaxTime}

\* what extractData rejects with, and the errors of the controller's tests
ExtractDataErrors ==
    {WrapExtractError(ReadMissingError), WrapExtractError(PdfParseError),
     UnlinkError, <<"Service error">>, <<"Invalid file type">>}

controllerVars ==
    <<apiKey, apiUrl, deploymentName, apiVersion, file, pdfContent, tempExists,
      outputs, now, faults, mode, pdfText, candidates, attemptCount, lastError,
      inFlight, extractedData, aiError, failure, calls, writes, deletes,
      lastSettled, fn, args>>

ControllerInit ==
    /\ NoRequest
    /\ fn = "uploadDocument"
    /\ args \in {[file |-> <<>>]} \cup {[file |-> <<f>>] : f \in Files}
    /\ ret = <<>>

\* uploadDocument up to its await
UploadDocument ==
    /\ fn = "uploadDocument"
    /\ pc = "start"
    /\ IF args.file = <<>>
       THEN /\ ret' = Append(ret, NoFileResponse)
            /\ pc' = "done"
            /\ UNCHANGED invoked
       ELSE /\ invoked' = invoked \cup {"processDocument", "extractData"}
            /\ pc' = "awaiting"
            /\ UNCHANGED ret
    /\ UNCHANGED <<controllerVars, outcome>>

\* extractData resolves: processDocument returns and the data is sent
ExtractDataResolves ==
    /\ fn = "uploadDocument"
    /\ pc = "awaiting"
    /\ \E result \in ExtractDataResults(args.file[1]) :
          /\ outcome' = result
          /\ ret' = Append(ret, DataResponse(result))
    /\ pc' = "done"
    /\ UNCHANGED <<controllerVars, invoked>>

\* extractData rejects: the catch of uploadDocument answers
ExtractDataRejects ==
    /\ fn = "uploadDocument"
    /\ pc = "awaiting"
    /\ \E error \in ExtractDataErrors :
          /\ outcome' = Raised(error)
          /\ ret' = Append(ret, ErrorResponse(error))
    /\ pc' = "done"
    /\ UNCHANGED <<controllerVars, invoked>>

ControllerNext ==
    \/ UploadDocument
    \/ ExtractDataResolves
    \/ ExtractDataRejects

ControllerSpec == ControllerInit /\ [][ControllerNext]_vars

-----------------------------------------------------------------------------
(* Two requests served by one process.  extractData runs to its next await *)
(* without interruption, and the other request may run at every await:     *)
(* pc, mode, file, tempExists, extractedData, aiError and outcome hold one *)
(* value per request; the clock and the outputs directory are shared.      *)

Requests == {1, 2}

\* req.file of request r: the upload middleware stages every upload under a
\* name of its own, and the client chooses originalname
UploadedFiles(r) ==
    { [originalname |-> n, path |-> <<"/uploads/1", "/uploads/2">>[r]] :
        n \in {"invoice.pdf", "order.pdf"} }

RequestsInit ==
    /\ apiKey \in ApiKeys
    /\ apiUrl \in ApiUrls
    /\ deploymentName = Undefined
    /\ apiVersion = Undefined
    /\ file \in {f \in [Requests -> UNION {UploadedFiles(r) : r \in Requests}] :
                    \A r \in Requests : f[r] \in UploadedFiles(r)}
    /\ pdfContent = [corrupt |-> FALSE, text |-> <<" ", "PO No.: ", "PR028561", "\n">>]
    /\ tempExists = [r \in Requests |-> TRUE]
    /\ outputs = {}
    /\ now = 0
    /\ faults = 0
    /\ pc = [r \in Requests |-> "start"]
    /\ mode = [r \in Requests |-> "none"]
    /\ pdfText = <<>>
    /\ candidates = ProbePairs(deploymentName, apiVersion)
    /\ attemptCount = 0
    /\ lastError = <<>>
    /\ inFlight = 0
    /\ extractedData = [r \in Requests |-> <<>>]
    /\ aiError = [r \in Requests |-> <<>>]
    /\ failure = <<>>
    /\ outcome = [r \in Requests |-> Pending]
    /\ calls = <<>>
    /\ invoked = {}
    /\ writes = 0
    /\ deletes = 0
    /\ lastSettled = <<>>
    /\ fn = "extractData"
    /\ args = <<>>
    /\ ret = <<>>

\* what the steps of a request leave alone
sharedVars ==
    <<apiKey, apiUrl, deploymentName, apiVersion, file, pdfContent, faults,
      pdfText, candidates, attemptCount, lastError, failure, invoked,
      lastSettled, fn, args, ret>>

\* extractData up to the first await: the configuration check, then
\* fs.readFileSync and the call of pdfParse in either method
StartRequest(r) ==
    /\ pc[r] = "start"
    /\ IF ~Configured(apiKey, apiUrl)
       THEN /\ mode' = [mode EXCEPT ![r] = "local_only"]
            /\ pc' = [pc EXCEPT ![r] = "local_parse"]
       ELSE /\ mode' = [mode EXCEPT ![r] = "ai"]
            /\ pc' = [pc EXCEPT ![r] = "ai_parse"]
    /\ UNCHANGED <<sharedVars, tempExists, outputs, now, inFlight, extractedData,
                   aiError, outcome, calls, writes, deletes>>

\* callAIFoundryAPI from pdfParse's result to await axios.post
SendProbe(r) ==
    /\ pc[r] = "ai_parse"
    /\ calls' = Append(calls, candidates[1])
    /\ inFlight' = inFlight + 1
    /\ pc' = [pc EXCEPT ![r] = "awaiting"]
    /\ UNCHANGED <<sharedVars, tempExists, outputs, now, mode, extractedData,
                   aiError, outcome, writes, deletes>>

\* the artifact is written under the name made of Date.now() and
\* file.originalname, the temp document is deleted and the result returned
WriteAndReturn(r, data, result) ==
    /\ extractedData' = [extractedData EXCEPT ![r] = <<data>>]
    /\ outputs' = outputs \cup {data.outputFile}
    /\ writes' = writes + 1
    /\ tempExists' = [tempExists EXCEPT ![r] = FALSE]
    /\ deletes' = deletes + 1
    /\ outcome' = [outcome EXCEPT ![r] = result]
    /\ pc' = [pc EXCEPT ![r] = "returned"]

\* the probe answers with HTTP 200 and a content: callAIFoundryAPI runs to its
\* return and extractData returns the AI result
ProbeAnswered(r) ==
    /\ pc[r] = "awaiting"
    /\ inFlight' = inFlight - 1
    /\ \E body \in {b \in ResponseBodies : b.hasChoices /\ AIContentOf(b).present} :
          WriteAndReturn(r,
              [AIExtractedData(file[r], AIContentOf(body), candidates[1])
                  EXCEPT !.outputFile = OutputFileName(now, file[r])],
              AISuccessResult(
                  [AIExtractedData(file[r], AIContentOf(body), candidates[1])
                      EXCEPT !.outputFile = OutputFileName(now, file[r])]))
    /\ UNCHANGED <<sharedVars, now, mode, aiError, calls>>

\* the probe is refused with 401 or 403: callAIFoundryAPI throws, extractData
\* falls back and processWithLocalLogic runs to await pdfParse
ProbeRefused(r) ==
    /\ pc[r] = "awaiting"
    /\ inFlight' = inFlight - 1
    /\ \E err \in {e \in HttpFailures : IsAuthStatus(e.status)} :
          aiError' = [aiError EXCEPT ![r] = WrapAIError(AuthenticationMessage(err))]
    /\ mode' = [mode EXCEPT ![r] = "fallback"]
    /\ pc' = [pc EXCEPT ![r] = "local_parse"]
    /\ UNCHANGED <<sharedVars, tempExists, outputs, now, extractedData, outcome,
                   calls, writes, deletes>>

\* processWithLocalLogic from pdfParse's result to its return, and the return
\* of extractData
LocalFinishes(r) ==
    /\ pc[r] = "local_parse"
    /\ WriteAndReturn(r,
          [LocalExtractedData(file[r]) EXCEPT !.outputFile = OutputFileName(now, file[r])],
          IF mode[r] = "local_only"
          THEN LocalOnlyResult([LocalExtractedData(file[r])
                                   EXCEPT !.outputFile = OutputFileName(now, file[r])])
          ELSE FallbackResult([LocalExtractedData(file[r])
                                  EXCEPT !.outputFile = OutputFileName(now, file[r])],
                              aiError[r], now))
    /\ UNCHANGED <<sharedVars, now, inFlight, mode, aiError, calls>>

\* a millisecond passes while a request is being served
MillisecondPasses ==
    /\ \E r \in Requests : pc[r] # "returned"
    /\ now < MaxTime
    /\ now' = now + 1
    /\ UNCHANGED <<sharedVars, tempExists, outputs, pc, mode, inFlight,
                   extractedData, aiError, outcome, calls, writes, deletes>>

RequestsNext ==
    \/ \E r \in Requests : StartRequest(r)
    \/ \E r \in Requests : SendProbe(r)
    \/ \E r \in Requests : ProbeAnswered(r)
    \/ \E r \in Requests : ProbeRefused(r)
    \/ \E r \in Requests : LocalFinishes(r)
    \/ MillisecondPasses

RequestsSpec == RequestsInit /\ [][RequestsNext]_vars

-----------------------------------------------------------------------------
(* The texts parseDocumentFields is called on. *)

\* fragments of documents
FieldFragments == [
    \* "PO Number: 123\n"
    poNumber |->
        <<"P", "O", " ", "N", "u", "m", "b", "e", "r", ":", " ", "1", "2",
          "3", "\n">>,
    \* "PO No. PR028561\n"
    poNo |->
        <<"P", "O", " ", "N", "o", ".", " ", "P", "R", "0", "2", "8", "5",
          "6", "1", "\n">>,
    \* "ref PR12 by Phenix Label\n"
    shortPR |->
        <<"r", "e", "f", " ", "P", "R", "1", "2", " ", "b", "y", " ", "P",
          "h", "e", "n", "i", "x", " ", "L", "a", "b", "e", "l", "\n">>,
    \* "SHIPPED VIA: \n-Ship Via: UPS\n"
    shipVia |->
        <<"S", "H", "I", "P", "P", "E", "D", " ", "V", "I", "A", ":", " ",
          "\n", "-", "S", "h", "i", "p", " ", "V", "i", "a", ":", " ", "U",
          "P", "S", "\n">>,
    \* "Vendor: Barkman Honey, LLC\n"
    vendor |->
        <<"V", "e", "n", "d", "o", "r", ":", " ", "B", "a", "r", "k", "m",
          "a", "n", " ", "H", "o", "n", "e", "y", ",", " ", "L", "L", "C",
          "\n">>,
    \* "Vendor Address:   123    Main   St\n\n   \n   City   ST   12345   \n\n"
    messyAddress |->
        <<"V", "e", "n", "d", "o", "r", " ", "A", "d", "d", "r", "e", "s",
          "s", ":", " ", " ", " ", "1", "2", "3", " ", " ", " ", " ", "M",
          "a", "i", "n", " ", " ", " ", "S", "t", "\n", "\n", " ", " ",
          " ", "\n", " ", " ", " ", "C", "i", "t", "y", " ", " ", " ", "S",
          "T", " ", " ", " ", "1", "2", "3", "4", "5", " ", " ", " ", "\n",
          "\n">>,
    \* "Order Total: $689.25\nSub Total: 650.00\n"
    totals |->
        <<"O", "r", "d", "e", "r", " ", "T", "o", "t", "a", "l", ":", " ",
          "$", "6", "8", "9", ".", "2", "5", "\n", "S", "u", "b", " ", "T",
          "o", "t", "a", "l", ":", " ", "6", "5", "0", ".", "0", "0", "\n">>,
    \* "Phone: 555-123-4567 Fax: n/a\n"
    phone |->
        <<"P", "h", "o", "n", "e", ":", " ", "5", "5", "5", "-", "1", "2",
          "3", "-", "4", "5", "6", "7", " ", "F", "a", "x", ":", " ", "n",
          "/", "a", "\n">>
    ]

\* n times the character c
Fill(c, n) == [j \in 1..n |-> c]

\* the lengths around the address limit
AddressLengths == (AddressLimit - 1)..(AddressLimit + MaxExtra)

\* "TO:\nAcme Inc\n" <address of n characters> "\n\n": the second and third
\* line of a TO: block are the vendor's name and address
ToBlock(n) ==
    <<"T", "O", ":", "\n", "A", "c", "m", "e", " ", "I", "n", "c", "\n">>
    \o Fill("A", n) \o <<"\n", "\n">>

\* "Vendor Address: " <n characters> " Very Long Street"
LabelledAddress(n) ==
    <<"V", "e", "n", "d", "o", "r", " ", "A", "d", "d", "r", "e", "s", "s",
      ":", " ">>
    \o Fill("A", n) \o
    <<" ", "V", "e", "r", "y", " ", "L", "o", "n", "g", " ", "S", "t", "r",
      "e", "e", "t">>

\* "Bennett's Honey Farm " <n characters> "\n3176 Honey Lane\nFilmore CA 93015"
BennettBlock(n) ==
    <<"B", "e", "n", "n", "e", "t", "t", "'", "s", " ", "H", "o", "n", "e",
      "y", " ", "F", "a", "r", "m", " ">>
    \o Fill("x", n) \o
    <<"\n", "3", "1", "7", "6", " ", "H", "o", "n", "e", "y", " ", "L",
      "a", "n", "e", "\n", "F", "i", "l", "m", "o", "r", "e", " ", "C",
      "A", " ", "9", "3", "0", "1", "5">>

\* nothing, one fragment, two fragments, or a long address
FieldTexts ==
    {<<>>}
    \cup {FieldFragments[a] : a \in DOMAIN FieldFragments}
    \cup {FieldFragments[a] \o FieldFragments[b] :
            a \in DOMAIN FieldFragments, b \in DOMAIN FieldFragments}
    \cup {ToBlock(n) : n \in AddressLengths}
    \cup {LabelledAddress(n) : n \in AddressLengths}
    \cup {BennettBlock(n) : n \in AddressLengths}

-----------------------------------------------------------------------------
(* The arguments calculateFieldConfidence is called with. *)

ConfidenceNames == {
    \* 'Test'
    <<"T", "e", "s", "t">>,
    \* 'PO Number'
    <<"P", "O", " ", "N", "u", "m", "b", "e", "r">>,
    \* 'Phone Number'
    <<"P", "h", "o", "n", "e", " ", "N", "u", "m", "b", "e", "r">>,
    \* 'Vendor Address'
    <<"V", "e", "n", "d", "o", "r", " ", "A", "d", "d", "r", "e", "s", "s">>,
    \* 'Description'
    <<"D", "e", "s", "c", "r", "i", "p", "t", "i", "o", "n">>,
    \* ''
    <<>>,
    \* 'Invoice Number'
    <<"I", "n", "v", "o", "i", "c", "e", " ", "N", "u", "m", "b", "e", "r">>,
    \* 'Date Field'
    <<"D", "a", "t", "e", " ", "F", "i", "e", "l", "d">>,
    \* 'Random Field'
    <<"R", "a", "n", "d", "o", "m", " ", "F", "i", "e", "l", "d">>,
    \* 'Home Address'
    <<"H", "o", "m", "e", " ", "A", "d", "d", "r", "e", "s", "s">>,
    \* 'Billing Address'
    <<"B", "i", "l", "l", "i", "n", "g", " ", "A", "d", "d", "r", "e", "s",
      "s">>,
    \* 'Order Date'
    <<"O", "r", "d", "e", "r", " ", "D", "a", "t", "e">>,
    \* 'Ship Via'
    <<"S", "h", "i", "p", " ", "V", "i", "a">>,
    \* 'Address Number'
    <<"A", "d", "d", "r", "e", "s", "s", " ", "N", "u", "m", "b", "e", "r">>
    }

ConfidenceValues == {
    Null,
    NotFoundInDocument,
    \* ''
    <<>>,
    \* 'PR123456'
    <<"P", "R", "1", "2", "3", "4", "5", "6">>,
    \* '555-123-4567'
    <<"5", "5", "5", "-", "1", "2", "3", "-", "4", "5", "6", "7">>,
    \* '123 Main St, City, ST 12345'
    <<"1", "2", "3", " ", "M", "a", "i", "n", " ", "S", "t", ",", " ", "C",
      "i", "t", "y", ",", " ", "S", "T", " ", "1", "2", "3", "4", "5">>,
    \* 'Some description'
    <<"S", "o", "m", "e", " ", "d", "e", "s", "c", "r", "i", "p", "t", "i",
      "o", "n">>,
    \* 'INV-123'
    <<"I", "N", "V", "-", "1", "2", "3">>,
    \* '2024-01-15'
    <<"2", "0", "2", "4", "-", "0", "1", "-", "1", "5">>,
    \* 'abc def'
    <<"a", "b", "c", " ", "d", "e", "f">>,
    \* 'Short'
    <<"S", "h", "o", "r", "t">>,
    \* '12/31/2024'
    <<"1", "2", "/", "3", "1", "/", "2", "0", "2", "4">>,
    \* '0123456789'
    <<"0", "1", "2", "3", "4", "5", "6", "7", "8", "9">>,
    \* '01234567890'
    <<"0", "1", "2", "3", "4", "5", "6", "7", "8", "9", "0">>,
    \* 'a_b'
    <<"a", "_", "b">>,
    \* 'PR1\n'
    <<"P", "R", "1", "\n">>,
    \* 'This is a longer address with more details'
    <<"T", "h", "i", "s", " ", "i", "s", " ", "a", " ", "l", "o", "n", "g",
      "e", "r", " ", "a", "d", "d", "r", "e", "s", "s", " ", "w", "i", "t",
      "h", " ", "m", "o", "r", "e", " ", "d", "e", "t", "a", "i", "l", "s">>
    }

-----------------------------------------------------------------------------
(* The calls *)

CallInit ==
    /\ NoRequest
    /\ ret = <<>>
    /\ \/ /\ fn = "parseDocumentFields"
          /\ args \in {[text |-> t] : t \in FieldTexts}
       \/ /\ fn = "calculateFieldConfidence"
          /\ args \in [fieldName : ConfidenceNames, value : ConfidenceValues]
       \/ /\ fn = "detectDocumentType"
          /\ args \in {[text |-> t] : t \in TypeTexts}
       \/ /\ fn = "extractGenericTables"
          /\ args \in {[text |-> t] : t \in TableTexts(MaxLines)}
       \/ /\ fn = "extractLineItems"
          /\ args \in {[text |-> t] : t \in ItemTexts}
       \/ /\ fn = "processAIResponse"
          /\ args \in {[aiContent |-> c] : c \in AIContents}

ParseDocumentFields ==
    /\ fn = "parseDocumentFields"
    /\ Return(parseDocumentFields(args.text))

CalculateFieldConfidence ==
    /\ fn = "calculateFieldConfidence"
    /\ Return(calculateFieldConfidence(args.fieldName, args.value))

DetectDocumentType ==
    /\ fn = "detectDocumentType"
    /\ Return(detectDocumentType(args.text))

ExtractGenericTables ==
    /\ fn = "extractGenericTables"
    /\ Return(extractGenericTables(args.text))

ExtractLineItems ==
    /\ fn = "extractLineItems"
    /\ Return(extractLineItems(args.text))

\* the try/catch of callAIFoundryAPI on the content of a response
ProcessAIResponse ==
    /\ fn = "processAIResponse"
    /\ Return(ContentOf(args.aiContent))

CallNext ==
    \/ ParseDocumentFields
    \/ CalculateFieldConfidence
    \/ DetectDocumentType
    \/ ExtractGenericTables
    \/ ExtractLineItems
    \/ ProcessAIResponse

CallSpec == CallInit /\ [][CallNext]_vars

-----------------------------------------------------------------------------
(* Properties of parseDocumentFields *)

\* the eleven known field names, in their fixed order
KnownFieldNames == <<
    <<"P", "O", " ", "N", "u", "m", "b", "e", "r">>,
    <<"V", "e", "n", "d", "o", "r", " ", "N", "a", "m", "e">>,
    <<"V", "e", "n", "d", "o", "r", " ", "A", "d", "d", "r", "e", "s", "s">>,
    <<"S", "h", "i", "p", " ", "T", "o", " ", "A", "d", "d", "r", "e", "s",
      "s">>,
    <<"O", "r", "d", "e", "r", " ", "D", "a", "t", "e">>,
    <<"R", "e", "q", "u", "i", "r", "e", "d", " ", "D", "a", "t", "e">>,
    <<"T", "o", "t", "a", "l", " ", "A", "m", "o", "u", "n", "t">>,
    <<"S", "u", "b", "t", "o", "t", "a", "l">>,
    <<"P", "h", "o", "n", "e", " ", "N", "u", "m", "b", "e", "r">>,
    <<"F", "a", "x", " ", "N", "u", "m", "b", "e", "r">>,
    <<"S", "h", "i", "p", " ", "V", "i", "a">>
    >>

FieldsReturned == fn = "parseDocumentFields" /\ ret # <<>>

\* the values the primary patterns of the k-th field yield, "" where none
PrimaryValues(k) ==
    [j \in 1..Len(patterns[k].fieldPatterns) |->
        PatternValue(args.text, patterns[k].fieldName,
                     patterns[k].fieldPatterns[j])]

\* the primary patterns of the k-th field that yield a value
PrimaryHits(k) == {j \in DOMAIN PrimaryValues(k) : PrimaryValues(k)[j] # <<>>}

\* what the fallback extractor finds for the k-th field
FallbackValue(k) ==
    extractFieldWithSimplePattern(args.text, patterns[k].fieldName)

\* C11: for any input text parseDocumentFields returns exactly eleven
\* entries, one per known field name in the fixed order, each with a
\* non-null, non-empty value and a confidence in [0,1]; a field that neither
\* a primary pattern nor the fallback extractor finds is present with value
\* 'Not found in document' and confidence 0.0.
C11_ElevenEntries ==
    FieldsReturned =>
        /\ Len(ret[1]) = 11
        /\ Len(KnownFieldNames) = 11
        /\ \A k \in 1..11 :
            /\ ret[1][k].key = KnownFieldNames[k]
            /\ ret[1][k].value # Null
            /\ ret[1][k].value # <<>>
            /\ ret[1][k].confidence \in 0..100
            /\ (PrimaryHits(k) = {} /\ FallbackValue(k) = Null) =>
                  /\ ret[1][k].value = NotFoundInDocument
                  /\ ret[1][k].confidence = 0

C11_Witness ==
    /\ FieldsReturned
    /\ args.text = FieldFragments.poNo
    /\ ret[1][1].value = <<"P", "R", "0", "2", "8", "5", "6", "1">>
    /\ ret[1][2].value = NotFoundInDocument
    /\ ret[1][2].confidence = 0

\* C12: pattern priority.  For each field the value comes from the first
\* primary pattern, in the fixed order, whose captured group is non-empty
\* after cleaning, also when a later pattern or the fallback extractor would
\* yield another value; the fallback extractor decides only when no primary
\* pattern yields a value, and its hit has confidence exactly 0.70.
C12_PatternPriority ==
    FieldsReturned =>
        \A k \in 1..Len(patterns) :
            LET hits == PrimaryHits(k)
                first == CHOOSE j \in hits : \A h \in hits : j <= h
            IN  IF hits # {}
                THEN ret[1][k].value = PrimaryValues(k)[first]
                ELSE FallbackValue(k) \notin {Null, <<>>} =>
                        /\ ret[1][k].value = FallbackValue(k)
                        /\ ret[1][k].confidence = 70

\* "PO Number: 123" wins over the later pattern and over the fallback's PR12;
\* the vendor name is a fallback hit
C12_Witness ==
    /\ FieldsReturned
    /\ args.text = FieldFragments.poNumber \o FieldFragments.shortPR
    /\ PrimaryHits(1) # {}
    /\ FallbackValue(1) = <<"P", "R", "1", "2">>
    /\ ret[1][1].value = <<"1", "2", "3">>
    /\ PrimaryHits(2) = {}
    /\ ret[1][2].value =
           <<"P", "h", "e", "n", "i", "x", " ", "L", "a", "b", "e", "l">>
    /\ ret[1][2].confidence = 70

-----------------------------------------------------------------------------
(* Properties of calculateFieldConfidence *)

ConfidenceReturned == fn = "calculateFieldConfidence" /\ ret # <<>>

\* the value consists only of letters, digits, '-' and '/'
OnlyStructuredCharacters(value) ==
    /\ Len(value) > 0
    /\ \A i \in 1..Len(value) : value[i] \in Letters \cup Digits \cup {"-", "/"}

\* C13: confidence scoring.  A missing, empty or 'Not found in document'
\* value scores 0.0; otherwise a field whose name contains 'Number' or 'Date'
\* scores 0.95 when the value consists only of letters, digits, '-' and '/'
\* and 0.75 when not; otherwise an address field scores 0.85 when the value
\* is longer than 10 characters and 0.60 when not; every other field scores
\* 0.80.
C13_ConfidenceScoring ==
    ConfidenceReturned =>
        ret[1] =
            IF args.value \in {Null, <<>>, NotFoundInDocument} THEN 0
            ELSE IF \/ Contains(args.fieldName, <<"N", "u", "m", "b", "e", "r">>)
                    \/ Contains(args.fieldName, <<"D", "a", "t", "e">>)
            THEN (IF OnlyStructuredCharacters(args.value) THEN 95 ELSE 75)
            ELSE IF Contains(args.fieldName, <<"A", "d", "d", "r", "e", "s", "s">>)
            THEN (IF Len(args.value) > 10 THEN 85 ELSE 60)
            ELSE 80

\* calculateFieldConfidence('Date Field', '2024-01-15') is 0.95
C13_Witness ==
    /\ ConfidenceReturned
    /\ args.fieldName = <<"D", "a", "t", "e", " ", "F", "i", "e", "l", "d">>
    /\ args.value = <<"2", "0", "2", "4", "-", "0", "1", "-", "1", "5">>
    /\ ret[1] = 95

-----------------------------------------------------------------------------
(* Address post-processing *)

\* no whitespace but single spaces between other characters
SingleSpaced(value) ==
    \A i \in 1..Len(value) :
        IsWhitespace(value[i]) =>
            /\ value[i] = " "
            /\ i > 1
            /\ i < Len(value)
            /\ ~IsWhitespace(value[i + 1])

\* the address the k-th field's patterns match, its whitespace collapsed:
\* the capture of the first primary pattern that yields a value, else the
\* match of the fallback extractor, else nothing
MatchedAddress(k) ==
    LET hits == PrimaryHits(k)
        first == CHOOSE j \in hits : \A h \in hits : j <= h
        m == match(args.text, patterns[k].fieldPatterns[first])
    IN  IF hits # {} THEN Trim(CollapseWhitespace(m.groups[1][1]))
        ELSE IF FallbackValue(k) # Null THEN FallbackValue(k)
        ELSE <<>>

\* C14: address post-processing.  Every emitted address value has its
\* whitespace and newlines collapsed to single spaces, and a matched address
\* value longer than 300 characters is emitted as exactly its first 300
\* characters followed by '...' (303 characters in all).
C14_AddressPostProcessing ==
    FieldsReturned =>
        \A k \in 1..Len(ret[1]) :
            Contains(ret[1][k].key, <<"A", "d", "d", "r", "e", "s", "s">>) =>
                /\ SingleSpaced(ret[1][k].value)
                /\ Len(MatchedAddress(k)) > 300 =>
                      /\ ret[1][k].value =
                             SubSeq(MatchedAddress(k), 1, 300) \o <<".", ".", ".">>
                      /\ Len(ret[1][k].value) = 303

\* the same for the addresses the primary patterns match
PrimaryAddressTruncated ==
    FieldsReturned =>
        \A k \in 1..Len(ret[1]) :
            (/\ Contains(ret[1][k].key, <<"A", "d", "d", "r", "e", "s", "s">>)
             /\ PrimaryHits(k) # {}) =>
                /\ SingleSpaced(ret[1][k].value)
                /\ Len(MatchedAddress(k)) > 300 =>
                      ret[1][k].value =
                          SubSeq(MatchedAddress(k), 1, 300) \o <<".", ".", ".">>

\* a primary match of more than 300 characters, emitted with 303
PrimaryAddressTruncatedSeen ==
    /\ FieldsReturned
    /\ args.text = ToBlock(AddressLimit + 1)
    /\ Len(ret[1][3].value) = 303

-----------------------------------------------------------------------------
(* Properties of detectDocumentType *)

\* the keywords in their fixed order, with their labels
DocumentKeywords == <<
    [word |->
        <<"i", "n", "v", "o", "i", "c", "e">>,
     label |-> "Invoice"],
    [word |->
        <<"r", "e", "c", "e", "i", "p", "t">>,
     label |-> "Receipt"],
    [word |->
        <<"p", "u", "r", "c", "h", "a", "s", "e", " ", "o", "r", "d", "e",
          "r">>,
     label |-> "Purchase Order"],
    [word |->
        <<"b", "i", "l", "l", " ", "o", "f", " ", "l", "a", "d", "i", "n",
          "g">>,
     label |-> "Bill of Lading"],
    [word |->
        <<"p", "a", "c", "k", "i", "n", "g", " ", "s", "l", "i", "p">>,
     label |-> "Packing Slip"]
    >>

TypeReturned == fn = "detectDocumentType" /\ ret # <<>>

\* word occurs in text as a substring, whatever the case of the letters
OccursIgnoringCase(text, word) ==
    \E i \in 0..(Len(text) - Len(word)) :
        \A j \in 1..Len(word) :
            text[i + j] \in {word[j], toUpperCaseChar(word[j])}

\* C15: detectDocumentType returns the label of the first keyword, in the
\* order invoice, receipt, purchase order, bill of lading, packing slip, that
\* occurs case-insensitively as a substring of the text, and 'Business
\* Document' when none occurs: one label for every text.
C15_DocumentType ==
    TypeReturned =>
        LET occurring == {k \in DOMAIN DocumentKeywords :
                            OccursIgnoringCase(args.text, DocumentKeywords[k].word)}
            first == CHOOSE k \in occurring : \A h \in occurring : k <= h
        IN  ret[1] = IF occurring = {} THEN "Business Document"
                     ELSE DocumentKeywords[first].label

\* a text with both 'purchase order' and 'Invoice' is an Invoice
C15_Witness ==
    /\ TypeReturned
    /\ args.text = TypeFragments.purchaseOrder \o TypeFragments.invoice
    /\ ret[1] = "Invoice"

-----------------------------------------------------------------------------
(* Properties of extractGenericTables *)

TablesReturned == fn = "extractGenericTables" /\ ret # <<>>

\* a non-empty line with a delimiter (two or more whitespace characters, or a
\* tab) between two columns
IsTableRow(line) ==
    LET t == Trim(line)
    IN  /\ t # <<>>
        /\ \E i \in 1..Len(t) :
              \/ t[i] = "\t"
              \/ i < Len(t) /\ IsWhitespace(t[i]) /\ IsWhitespace(t[i + 1])

\* the maximal runs <<first, last>> of two or more table rows
Runs(lines) ==
    {r \in (1..Len(lines)) \X (1..Len(lines)) :
        /\ r[1] < r[2]
        /\ \A k \in r[1]..r[2] : IsTableRow(lines[k])
        /\ r[1] = 1 \/ ~IsTableRow(lines[r[1] - 1])
        /\ r[2] = Len(lines) \/ ~IsTableRow(lines[r[2] + 1])}

\* tables are, in order, the runs: one table per run, as long as the run, its
\* cells numbered from 0 and holding the lines of the run
TablesAreRuns(tables, lines, runs) ==
    /\ Len(tables) = Cardinality(runs)
    /\ \A r \in runs :
          LET t == tables[Cardinality({q \in runs : q[1] <= r[1]})]
          IN  /\ t.tableName = "Generic Table"
              /\ t.rowCount = r[2] - r[1] + 1
              /\ Len(t.cells) = t.rowCount
              /\ \A j \in 1..Len(t.cells) :
                    /\ t.cells[j].rowIndex = j - 1
                    /\ t.cells[j].content = Trim(lines[r[1] + j - 1])

\* C16: every maximal run of two or more consecutive non-empty lines that each
\* split into at least two columns is emitted as exactly one generic table of
\* rowCount rows with rowIndex 0..rowCount-1, wherever the run is, the end of
\* the text included; single lines give no table.
C16_GenericTables ==
    TablesReturned =>
        LET lines == splitOn(args.text, "\n")
        IN  TablesAreRuns(ret[1], lines, Runs(lines))

\* the same for the runs that are followed by another line
ClosedRunsEmitted ==
    TablesReturned =>
        LET lines == splitOn(args.text, "\n")
        IN  TablesAreRuns(ret[1], lines,
                          {r \in Runs(lines) : r[2] < Len(lines)})

\* two runs in one text, both emitted
TwoTablesSeen ==
    /\ TablesReturned
    /\ Len(ret[1]) = 2

\* a run at the end of the text, not emitted
LastRunDroppedSeen ==
    /\ TablesReturned
    /\ \E r \in Runs(splitOn(args.text, "\n")) : r[2] = Len(splitOn(args.text, "\n"))
    /\ ret[1] = <<>>

-----------------------------------------------------------------------------
(* Properties of extractLineItems *)

LineItemsReturned == fn = "extractLineItems" /\ ret # <<>>

AllDigits(s) == s # <<>> /\ \A k \in DOMAIN s : s[k] \in Digits

IsBlank(s) == \A k \in DOMAIN s : IsWhitespace(s[k])

IsAmount(s) == Len(s) >= 2 /\ s[1] = "$" /\ s[Len(s)] \in Digits

\* lines a..b are a header block: at most ten lines, none blank, the first
\* one ITEM, with the tokens UNIT, QTY and DESCRIPTION among them
HeaderBlock(lines, a, b) ==
    /\ a <= b /\ b - a + 1 <= 10
    /\ \A k \in a..b : ~IsBlank(lines[k])
    /\ Contains(lines[a], <<"I", "T", "E", "M">>)
    /\ \A token \in {<<"U", "N", "I", "T">>,
                     <<"Q", "T", "Y">>,
                     <<"D", "E", "S", "C", "R", "I", "P", "T", "I", "O", "N">>} :
          \E k \in a..b : Contains(lines[k], token)

\* lines c..c+11 are a well-formed item block: item number (two or three
\* digits, 10 or more), unit, quantity, spacer, part number, two description
\* lines, due date, price, tax, discount, line total
ItemBlock(lines, c) ==
    /\ c + 11 <= Len(lines)
    /\ AllDigits(lines[c]) /\ Len(lines[c]) \in 2..3 /\ lines[c][1] # "0"
    /\ lines[c + 1] # <<>> /\ Len(lines[c + 1]) <= 3
    /\ \A k \in DOMAIN lines[c + 1] : lines[c + 1][k] \in UpperLetters
    /\ AllDigits(lines[c + 2])
    /\ IsBlank(lines[c + 3])
    /\ AllDigits(lines[c + 4]) /\ Len(lines[c + 4]) >= 10
    /\ \A k \in {c + 5, c + 6} :
          /\ lines[k] # <<>>
          /\ lines[k][1] \in Letters
          /\ ~Contains(lines[k], <<"$">>)
    /\ Len(lines[c + 7]) = 10
    /\ \A k \in 1..10 : IF k \in {5, 8} THEN lines[c + 7][k] = "-"
                        ELSE lines[c + 7][k] \in Digits
    /\ IsAmount(lines[c + 8])
    /\ AllDigits(lines[c + 9])
    /\ AllDigits(SubSeq(lines[c + 10], 1, Len(lines[c + 10]) - 1))
    /\ lines[c + 10][Len(lines[c + 10])] = "%"
    /\ IsAmount(lines[c + 11])

\* a header block, blank lines, one item block, and after it nothing but
\* blank lines or the totals
HeaderThenOneItem(lines, a, b, c) ==
    /\ HeaderBlock(lines, a, b)
    /\ b < c
    /\ \A k \in (b + 1)..(c - 1) : IsBlank(lines[k])
    /\ ItemBlock(lines, c)
    /\ \A k \in (c + 12)..Len(lines) :
          \/ IsBlank(lines[k])
          \/ \E h \in (c + 12)..k : Contains(lines[h], <<"S", "U", "B", "T", "O", "T", "A", "L">>)

\* C17: for any text in which a header block with the tokens ITEM, UNIT, QTY
\* and DESCRIPTION within ten lines is followed by one well-formed item block
\* of an item-number line and eleven data lines, extractLineItems returns
\* exactly one line item, whose description is not empty.
C17_OneLineItem ==
    LineItemsReturned =>
        LET lines == splitOn(args.text, "\n")
        IN  (\E a, b, c \in DOMAIN lines : HeaderThenOneItem(lines, a, b, c))
                => /\ Len(ret[1]) = 1
                   /\ ret[1][1].description # <<>>

\* the same when the item number is on the tenth line after ITEM or later
ItemAfterTenLinesExtracted ==
    LineItemsReturned =>
        LET lines == splitOn(args.text, "\n")
        IN  (\E a, b, c \in DOMAIN lines :
                /\ HeaderThenOneItem(lines, a, b, c)
                /\ lines[a] = <<"I", "T", "E", "M">>
                /\ c >= a + 10)
                => /\ Len(ret[1]) = 1
                   /\ ret[1][1].description # <<>>

\* a ten-line header and its item, extracted
OneLineItemSeen ==
    /\ LineItemsReturned
    /\ Len(ret[1]) = 1
    /\ ret[1][1].description = <<"H", "o", "n", "e", "y", " ", "J", "a", "r", " ", "A", "m", "b", "e", "r">>
    /\ LET lines == splitOn(args.text, "\n")
       IN  \E a \in DOMAIN lines : \E c \in DOMAIN lines :
              /\ a + 9 < c
              /\ HeaderThenOneItem(lines, a, a + 9, c)

\* a four-line header directly followed by its item: nothing extracted
ShortHeaderItemLostSeen ==
    /\ LineItemsReturned
    /\ ret[1] = <<>>
    /\ LET lines == splitOn(args.text, "\n")
       IN  \E a \in DOMAIN lines :
              /\ a + 4 <= Len(lines)
              /\ HeaderThenOneItem(lines, a, a + 3, a + 4)

-----------------------------------------------------------------------------
(* Properties of the conversion of the AI response *)

ContentProcessed == fn = "processAIResponse" /\ ret # <<>>

\* the lookup table, by canonical field name
KnownVariants == <<
    [name |-> "Vendor Name", variants |-> {"vendor", "vendorName", "vendor_name"}],
    [name |-> "Vendor Address", variants |-> {"vendorAddress", "vendor_address"}],
    [name |-> "Ship To Address",
     variants |-> {"shipToAddress", "ship_to_address", "shipping_address"}],
    [name |-> "PO Number", variants |-> {"poNumber", "po_number", "purchaseOrder"}],
    [name |-> "Invoice Number", variants |-> {"invoiceNumber", "invoice_number"}],
    [name |-> "Order Date", variants |-> {"orderDate", "order_date", "date"}],
    [name |-> "Total Amount", variants |-> {"totalAmount", "total_amount", "total"}],
    [name |-> "Subtotal", variants |-> {"subtotal", "sub_total"}],
    [name |-> "Phone Number", variants |-> {"phone", "phoneNumber", "phone_number"}],
    [name |-> "Fax Number", variants |-> {"fax", "faxNumber"}] >>

\* the canonical names of the keys of ks that are known variants
CanonicalNames(ks) ==
    {KnownVariants[n].name : n \in {m \in DOMAIN KnownVariants :
                                       KnownVariants[m].variants \cap ks # {}}}

\* the string and number leaves of an object, in order: key, key path and text
RECURSIVE Leaves(_, _)
Leaves(obj, prefix) ==
    IF obj = <<>> THEN <<>>
    ELSE LET e == Head(obj)
             path == IF prefix = "" THEN e.key ELSE prefix \o "_" \o e.key
         IN  (IF "object" \in DOMAIN e THEN Leaves(e.object, path)
              ELSE IF "value" \in DOMAIN e
              THEN <<[key |-> e.key, path |-> path, text |-> e.value]>>
              ELSE IF "number" \in DOMAIN e
              THEN <<[key |-> e.key, path |-> path, text |-> ToString(e.number)]>>
              ELSE <<>>)
             \o Leaves(Tail(obj), prefix)

NestedObjectSeen ==
    /\ ContentProcessed
    /\ ret[1].json
    /\ ret[1].extractedFields =
          <<[key |-> "Order Date", value |-> "2024-01-15", confidence |-> 90],
            [key |-> "address", value |-> "1 Rd", confidence |-> 90],
            [key |-> "Subtotal", value |-> "5", confidence |-> 90]>>

-----------------------------------------------------------------------------
(* Properties of the text fallback *)

\* a line of the form 'key: value' or 'key - value': its first separator has a
\* key before it and a value after it, both with something else than blanks
LineParts(line) ==
    LET separators == {i \in DOMAIN line : line[i] \in {":", "-"}}
        at == CHOOSE i \in separators : \A h \in separators : i <= h
    IN  IF separators = {} THEN [key |-> "", value |-> ""]
        ELSE [key |-> ToStr(Trim(SubSeq(line, 1, at - 1))),
              value |-> ToStr(Trim(SubSeq(line, at + 1, Len(line))))]

IsKeyValueLine(line) ==
    /\ LineParts(line).key # ""
    /\ LineParts(line).value # ""
    /\ LineParts(line).value \notin {"Not found", "N/A"}

\* one field with confidence 0.85 for every such line, in line order
FieldsOfKeyValueLines(aiText) ==
    LET found == SelectSeq(splitOn(aiText, "\n"), IsKeyValueLine)
    IN  [k \in DOMAIN found |->
            [key |-> LineParts(found[k]).key,
             value |-> LineParts(found[k]).value,
             confidence |-> 85]]

\* C19: when the AI content is not valid JSON the probe still counts as a
\* success: the request returns the AI result with aiParsedData null and no
\* call is made after that probe; and parseAITextResponse emits, in line
\* order, one field with confidence 0.85 for every line 'key: value' or
\* 'key - value' with non-empty trimmed key and value, except the lines whose
\* value is 'Not found' or 'N/A'.
C19_TextFallback ==
    /\ []((/\ lastSettled # <<>>
           /\ lastSettled[1].how = "returned"
           /\ ~outcome.data[1].aiResponse.json) =>
            /\ Returned
            /\ outcome.success
            /\ outcome.message = <<"Document processed successfully with ", "AI Foundry">>
            /\ aiError = <<>>
            /\ inFlight = 0
            /\ calls[Len(calls)].deployment = outcome.data[1].deployment
            /\ calls[Len(calls)].apiVersion = outcome.data[1].apiVersion
            /\ outcome.data[1].aiParsedData = <<>>
            /\ outcome.data[1].keyValuePairs =
                  FieldsOfKeyValueLines(outcome.data[1].aiResponse.text))
    /\ [][Returned => calls' = calls]_vars

\* the first probe answers with seven lines of text, two of them sentinels:
\* the request returns the two fields of the lines that qualify
C19_Witness ==
    /\ Returned
    /\ lastSettled # <<>>
    /\ lastSettled[1].how = "returned"
    /\ Len(calls) = 1
    /\ ~outcome.data[1].aiResponse.json
    /\ Len(outcome.data[1].aiResponse.lines) = 7
    /\ outcome.data[1].aiParsedData = <<>>
    /\ outcome.data[1].keyValuePairs =
          <<[key |-> "Vendor", value |-> "Acme LLC", confidence |-> 85],
            [key |-> "PO Number", value |-> "ABC123", confidence |-> 85]>>

\* the same rule on every content that is no JSON
TextFieldsAreKeyValueLines ==
    (ContentProcessed /\ ~ret[1].json) =>
        ret[1].extractedFields = FieldsOfKeyValueLines(args.aiContent)

-----------------------------------------------------------------------------
(* Properties of the upload controller *)

Answered == fn = "uploadDocument" /\ pc = "done"

\* C20: a request without a file is answered with 400 and 'No file uploaded'
\* and the extraction service is never called; if the service raises an error
\* the answer is 500 with 'An error occurred while uploading the document' and
\* nothing of the service's error; otherwise it is 200 with exactly the
\* envelope extractData returned; one response is sent per request.
C20_UploadController ==
    fn = "uploadDocument" =>
        /\ Len(ret) = (IF pc = "done" THEN 1 ELSE 0)
        /\ args.file = <<>> =>
              /\ invoked = {}
              /\ outcome = Pending
              /\ Answered =>
                    /\ ret[1].status = 400
                    /\ ret[1].body = [error |-> <<"No file uploaded">>]
        /\ (Answered /\ args.file # <<>>) =>
              /\ "extractData" \in invoked
              /\ IF outcome.kind = "raised"
                 THEN /\ ret[1].status = 500
                      /\ ret[1].body =
                            [error |-> <<"An error occurred while uploading the document">>]
                 ELSE /\ outcome.kind = "returned"
                      /\ ret[1].status = 200
                      /\ ret[1].body = outcome

\* the service fell back to local processing: 200 with that envelope
C20_Witness ==
    /\ Answered
    /\ args.file # <<>>
    /\ outcome.kind = "returned"
    /\ outcome.aiErrorDetails # <<>>
    /\ ret = <<[status |-> 200, body |-> outcome]>>

NoFileAnsweredSeen ==
    /\ Answered
    /\ args.file = <<>>
    /\ ret[1].status = 400

ServiceErrorAnsweredSeen ==
    /\ Answered
    /\ outcome = Raised(<<"Service error">>)
    /\ ret[1].status = 500

-----------------------------------------------------------------------------
(* Properties of the result as a whole *)

\* message is "Document processed successfully with AI Foundry"
ReportsAISuccess ==
    outcome.message = <<"Document processed successfully with ", "AI Foundry">>

\* message is "Document processed successfully with local processing (...)"
ReportsLocalProcessing ==
    /\ Len(outcome.message) >= 2
    /\ outcome.message[1] = "Document processed successfully with "
    /\ outcome.message[2] = "local processing"

\* C21: every result extractData returns records one processing method:
\* 'Azure OpenAI' exactly when the message reports AI Foundry success and
\* 'Local Pattern Matching' exactly when it reports local processing (not
\* configured, or fallback); no result claims both.
C21_OneProcessingMethod ==
    Returned =>
        /\ Len(outcome.data) = 1
        /\ outcome.data[1].processingMethod \in
              {"Azure OpenAI", "Local Pattern Matching"}
        /\ outcome.data[1].processingMethod = "Azure OpenAI" <=> ReportsAISuccess
        /\ outcome.data[1].processingMethod = "Local Pattern Matching"
              <=> ReportsLocalProcessing
        /\ ~(ReportsAISuccess /\ ReportsLocalProcessing)
        /\ ReportsLocalProcessing =>
              \/ Contains(outcome.message, <<"AI Foundry not configured">>)
              \/ Contains(outcome.message, <<"AI Foundry failed: ">>)
        /\ ReportsAISuccess <=> mode = "ai"

\* a fallback after probing: the message names AI Foundry, the method is local
C21_Witness ==
    /\ Returned
    /\ mode = "fallback"
    /\ Len(calls) > 0
    /\ ReportsLocalProcessing
    /\ outcome.data[1].processingMethod = "Local Pattern Matching"

AIMethodRecordedSeen ==
    /\ Returned
    /\ ReportsAISuccess
    /\ outcome.data[1].processingMethod = "Azure OpenAI"

-----------------------------------------------------------------------------
(* Properties of two requests *)

BothReturned == \A r \in Requests : outcome[r].kind = "returned"

\* C22: any two requests that complete successfully, one after the other or
\* interleaved, also with the same original filename, have different output
\* paths, so neither overwrites the other's artifact and two artifacts exist
\* afterwards.
C22_OneArtifactPerDocument ==
    BothReturned =>
        /\ outcome[1].outputFile # outcome[2].outputFile
        /\ Cardinality(outputs) = 2

\* the artifacts of two requests are apart when the names of the uploads or
\* the milliseconds of the writes differ
ArtifactsApartByNameOrTime ==
    (BothReturned /\ (\/ file[1].originalname # file[2].originalname
                      \/ outcome[1].outputFile[2] # outcome[2].outputFile[2])) =>
        /\ outcome[1].outputFile # outcome[2].outputFile
        /\ Cardinality(outputs) = 2

\* two uploads of one name written in the same millisecond: two writes, two
\* results naming the same file, one artifact
ArtifactOverwrittenSeen ==
    /\ BothReturned
    /\ writes = 2
    /\ outcome[1].outputFile = outcome[2].outputFile
    /\ outputs = {outcome[1].outputFile}

-----------------------------------------------------------------------------
(* Properties of the probe loop after an HTTP 200 *)

\* a probe of this request has come back with a successful HTTP response:
\* the iteration is past its await, or it has ended after it
ProbeSucceeded ==
    \/ pc \in {"ai_write", "ai_unlink"}
    \/ /\ lastSettled # <<>>
       /\ lastSettled[1].how \in {"processing_error", "returned"}

\* C23: once a probe has returned a successful HTTP response no further
\* outbound call is issued for the request, whatever happens afterwards in
\* that iteration (no choices[0].message.content, parsing raises, writing the
\* artifact or deleting the temp file raises).
C23_StopAtFirstSuccess ==
    [][ProbeSucceeded => calls' = calls]_vars

\* a second call after the first came back with HTTP 200 and no choices
CallAfterSuccessSeen ==
    /\ Len(calls) = 2
    /\ pc = "awaiting"
    /\ lastSettled # <<>>
    /\ lastSettled[1].how = "processing_error"
    /\ lastSettled[1].error = PlainError(NoChoicesError)

\* with a fixed pair there is one call at most, so none after a success
OneCallWithFixedPair ==
    FixedPair => Len(calls) <= 1

-----------------------------------------------------------------------------
(* Line items and the total markers *)

\* the line holds one of the total markers
TotalMarker(line) ==
    \/ Contains(line, <<"S", "U", "B", "T", "O", "T", "A", "L">>)
    \/ Contains(line, <<"G", "R", "A", "N", "D", " ", "T", "O", "T", "A", "L">>)

\* the lines from index i on (counted from 0) that hold nothing but itemNumber
\* and have no total marker between the end of the header and themselves
LinesBeforeAnyTotal(lines, headerEndIndex, itemNumber) ==
    {i \in headerEndIndex..(Len(lines) - 1) :
        /\ Trim(lines[i + 1]) = itemNumber
        /\ \A h \in headerEndIndex..(i - 1) : ~TotalMarker(lines[h + 1])}

\* C24: line-item parsing stops at a total marker: every line item that
\* extractLineItems returns comes from an item-number line with no line
\* containing SUBTOTAL or GRAND TOTAL between the header and itself, wherever
\* the marker falls relative to the block of the item before.
C24_StopAtTotalMarker ==
    LineItemsReturned =>
        LET lines == splitOn(args.text, "\n")
        IN  \A k \in DOMAIN ret[1] :
               LinesBeforeAnyTotal(lines, HeaderEndIndex(lines),
                                   ret[1][k].itemNumber) # {}

\* item 20 is returned although its only line follows the SUBTOTAL line, which
\* is the eleventh line after item number 10
ItemAfterTotalSeen ==
    /\ LineItemsReturned
    /\ Len(ret[1]) = 2
    /\ ret[1][1].itemNumber = <<"1", "0">>
    /\ ret[1][2].itemNumber = <<"2", "0">>
    /\ LET lines == splitOn(args.text, "\n")
       IN  /\ Len(lines) >= 23
           /\ lines[11] = <<"1", "0">>
           /\ lines[22] = <<"S", "U", "B", "T", "O", "T", "A", "L">>
           /\ lines[23] = <<"2", "0">>
           /\ \A k \in DOMAIN lines : lines[k] = <<"2", "0">> => k = 23

\* a total marker on the line the loop examines next ends the items
StopsAtExaminedTotal ==
    LineItemsReturned =>
        LET lines == splitOn(args.text, "\n")
        IN  (/\ Len(lines) >= 23
             /\ HeaderEndIndex(lines) = 10
             /\ lines[11] = <<"1", "0">>
             /\ TotalMarker(lines[23]))
            => Len(ret[1]) <= 1
-----------------------------------------------------------------------------
(* One entry per known field name *)

\* the entries of pairs whose key is name
EntriesNamed(pairs, name) == {k \in DOMAIN pairs : pairs[k].key = name}

\* C25: field-key uniqueness.  In the keyValuePairs of one run no known field
\* name appears in more than one entry: not in what parseDocumentFields
\* returns on the local path, and not in the fields extracted from the AI
\* response, also when the response holds several key variants that map to
\* the same canonical name.
C25_UniqueFieldKeys ==
    /\ FieldsReturned =>
          \A n \in DOMAIN KnownFieldNames :
             Cardinality(EntriesNamed(ret[1], KnownFieldNames[n])) <= 1
    /\ ContentProcessed =>
          \A n \in DOMAIN KnownVariants :
             Cardinality(EntriesNamed(ret[1].extractedFields,
                                      KnownVariants[n].name)) <= 1

\* the content {"vendor":"Acme","vendorName":"Acme LLC"} yields two entries
\* named Vendor Name
TwoVendorNamesSeen ==
    /\ ContentProcessed
    /\ ret[1].json
    /\ ret[1].extractedFields =
          <<[key |-> "Vendor Name", value |-> "Acme", confidence |-> 90],
            [key |-> "Vendor Name", value |-> "Acme LLC", confidence |-> 90]>>

\* and a request returns them as its keyValuePairs
TwoVendorNamesReturnedSeen ==
    /\ Returned
    /\ outcome.success
    /\ outcome.data # <<>>
    /\ outcome.data[1].processingMethod = "Azure OpenAI"
    /\ Cardinality(EntriesNamed(outcome.data[1].keyValuePairs, "Vendor Name")) = 2

\* the local path has one entry per known field name
LocalFieldKeysUnique ==
    FieldsReturned =>
        \A n \in DOMAIN KnownFieldNames :
           Cardinality(EntriesNamed(ret[1], KnownFieldNames[n])) = 1
-----------------------------------------------------------------------------
(* The leaves of the parsed object *)

\* the number of scalar leaves of an object at any depth: strings, numbers,
\* booleans and null; an array is no scalar
RECURSIVE ScalarLeaves(_)
ScalarLeaves(obj) ==
    IF obj = <<>> THEN 0
    ELSE LET e == Head(obj)
         IN  (IF "object" \in DOMAIN e THEN ScalarLeaves(e.object)
              ELSE IF "other" \in DOMAIN e /\ e.other = "array" THEN 0
              ELSE 1)
             + ScalarLeaves(Tail(obj))

\* C26: flattening completeness.  convertAIResponseToFields emits exactly one
\* field for every scalar leaf of the parsed object at any nesting depth, in
\* depth-first key order: there are as many fields as scalar leaves, and the
\* fields of the string and number leaves carry their values in that order.
C26_OneFieldPerScalarLeaf ==
    (ContentProcessed /\ ret[1].json) =>
        /\ Len(ret[1].extractedFields) = ScalarLeaves(ret[1].entries)
        /\ LET leaves == Leaves(ret[1].entries, "")
           IN  [k \in DOMAIN leaves |-> leaves[k].text]
                  = [k \in DOMAIN ret[1].extractedFields |->
                        ret[1].extractedFields[k].value]

\* {"po_number": 42, "paid": true, "items": [1, "x"], "note": null}: three
\* scalar leaves, one field
BooleanAndNullDroppedSeen ==
    /\ ContentProcessed
    /\ ret[1].json
    /\ ScalarLeaves(ret[1].entries) = 3
    /\ ret[1].extractedFields =
          <<[key |-> "PO Number", value |-> "42", confidence |-> 90]>>

\* one field per string or number leaf, in depth-first key order
OneFieldPerStringOrNumberLeaf ==
    (ContentProcessed /\ ret[1].json) =>
        LET leaves == Leaves(ret[1].entries, "")
        IN  [k \in DOMAIN leaves |-> leaves[k].text]
               = [k \in DOMAIN ret[1].extractedFields |->
                     ret[1].extractedFields[k].value]
-----------------------------------------------------------------------------
(* The temporary document and the fallback *)

\* processWithLocalLogic has been called from the catch of the AI path and is
\* about to read the document
FallbackStarts == mode = "fallback" /\ pc = "local_read"

\* C27: whenever the local path is started as a fallback after an AI error,
\* the temporary document is still as the request found it: nothing has been
\* deleted, and a document that existed when the request came in exists.  The
\* AI path deletes the document only in the step that returns its success,
\* and no request deletes the document twice.
C27_FallbackFindsDocument ==
    /\ [](FallbackStarts =>
            /\ deletes = 0
            /\ tempExists = Truthy(file.path))
    /\ [][(mode = "ai" /\ (deletes' # deletes \/ tempExists' # tempExists)) =>
            /\ pc = "ai_unlink"
            /\ pc' = "returned"
            /\ mode' = "ai"
            /\ outcome'.success
            /\ outcome'.message = <<"Document processed successfully with ", "AI Foundry">>]_vars
    /\ [](deletes <= 1)

\* the AI path wrote its artifact, fs.unlinkSync failed, a later probe was
\* refused: the fallback starts and the document is there
C27_Witness ==
    /\ FallbackStarts
    /\ writes = 1
    /\ Len(calls) >= 2
    /\ TempDocPresent
    /\ deletes = 0

\* a fallback that ends with the document deleted once
FallbackDeletesOnceSeen ==
    /\ Returned
    /\ mode = "fallback"
    /\ deletes = 1
    /\ ~tempExists
-----------------------------------------------------------------------------
(* One of the two fixed values configured *)

\* exactly one of the fixed deployment name and the fixed API version is set
PartlyFixed == Truthy(deploymentName) # Truthy(apiVersion)

\* C28: partial probe configuration.  When only one of the fixed deployment
\* name and the fixed API version is configured, the configured value is not
\* used at all: the candidates are the full default product of 7 deployment
\* names and 4 API versions, as if neither were configured, and every call
\* goes, in order, to a pair of that product.
C28_PartialConfigurationIgnored ==
    PartlyFixed =>
        LET defaults == ProbePairs(Undefined, Undefined)
        IN  /\ Len(defaults) = 7 * 4
            /\ \A k \in DOMAIN defaults :
                  /\ defaults[k].deployment # deploymentName
                  /\ defaults[k].apiVersion # apiVersion
            /\ candidates \in {<<>>, defaults}
            /\ (pc \in {"probe_loop", "awaiting", "ai_write", "ai_unlink"}
                    \/ calls # <<>>) => candidates = defaults
            /\ Len(calls) <= Len(defaults)
            /\ \A k \in DOMAIN calls :
                  /\ calls[k].deployment = defaults[k].deployment
                  /\ calls[k].apiVersion = defaults[k].apiVersion

\* only the deployment name is configured; the second call goes to gpt-4o with
\* the second default API version
C28_Witness ==
    /\ Truthy(deploymentName)
    /\ ~Truthy(apiVersion)
    /\ mode = "ai"
    /\ Len(calls) = 2
    /\ calls[1].deployment = "gpt-4o"
    /\ calls[1].apiVersion = "2024-08-01-preview"
    /\ calls[2].deployment = "gpt-4o"
    /\ calls[2].apiVersion = "2024-02-15-preview"

\* the same with only the API version configured
VersionOnlySeen ==
    /\ ~Truthy(deploymentName)
    /\ Truthy(apiVersion)
    /\ mode = "ai"
    /\ Len(calls) = 1
    /\ calls[1].deployment = "gpt-4o"
    /\ calls[1].apiVersion = "2024-08-01-preview"
-----------------------------------------------------------------------------
(* The stride of an item block *)

\* the line at index i (counted from 0), trimmed
LineAt(lines, i) == Trim(lines[i + 1])

\* a standalone number of two or three digits that is 10 or more
IsItemBoundary(line) ==
    /\ Len(line) \in 2..3
    /\ AllDigits(line)
    /\ \E k \in 1..(Len(line) - 1) : line[k] # "0"

\* a line that ends the items when it is examined at index i
IsStopLine(line, i, headerEndIndex) ==
    \/ TotalMarker(line)
    \/ (line = <<"I", "T", "E", "M">> /\ i > headerEndIndex + 20)

\* the indices the loop examines from index i on: i itself, and unless it is a
\* stop line, what is examined from the twelfth line after it on when it is
\* an item boundary and from the next line on when it is not
RECURSIVE ExaminedFrom(_, _, _)
ExaminedFrom(lines, i, headerEndIndex) ==
    IF i >= Len(lines) THEN {}
    ELSE IF IsStopLine(LineAt(lines, i), i, headerEndIndex) THEN {i}
    ELSE {i} \cup ExaminedFrom(lines,
                      IF IsItemBoundary(LineAt(lines, i)) THEN i + 12 ELSE i + 1,
                      headerEndIndex)

ExaminedLines(lines, headerEndIndex) ==
    ExaminedFrom(lines, headerEndIndex, headerEndIndex)

\* the item boundaries among the examined lines
BoundariesTaken(lines, headerEndIndex) ==
    {i \in ExaminedLines(lines, headerEndIndex) :
        /\ IsItemBoundary(LineAt(lines, i))
        /\ ~IsStopLine(LineAt(lines, i), i, headerEndIndex)}

\* one of unit, quantity, partNumber, description is not empty
HasItemData(item) ==
    \/ item.unit # <<>>
    \/ item.quantity # <<>>
    \/ item.partNumber # <<>>
    \/ item.description # <<>>

\* C29: item block stride.  Once the line at index i is recognised as an item
\* boundary, lines i+1..i+11 belong to that item whether it is kept or
\* discarded: none of them is examined as an item boundary or as a stop
\* marker, and the next line examined is i+12.  The items returned are those
\* of the boundaries so examined, in order, whose data has one of unit,
\* quantity, partNumber, description non-empty.
C29_ItemBlockStride ==
    (LineItemsReturned /\ HeaderEndIndex(splitOn(args.text, "\n")) # -1) =>
        LET lines == splitOn(args.text, "\n")
            examined == ExaminedLines(lines, HeaderEndIndex(lines))
            taken == BoundariesTaken(lines, HeaderEndIndex(lines))
            kept == {i \in taken :
                        HasItemData(ItemData(lines, i, LineAt(lines, i)))}
        IN  /\ \A i \in taken : \A j \in (i + 1)..(i + 11) : j \notin examined
            /\ \A i \in taken : i + 12 < Len(lines) => i + 12 \in examined
            /\ Len(ret[1]) = Cardinality(kept)
            /\ \A k \in DOMAIN ret[1] :
                  /\ HasItemData(ret[1][k])
                  /\ \E i \in kept :
                        /\ Cardinality({j \in kept : j < i}) = k - 1
                        /\ ret[1][k] = ItemData(lines, i, LineAt(lines, i))

\* item 10 without unit, quantity, part number and description is discarded,
\* the line after its eleven lines is examined and item 20 is kept
C29_Witness ==
    /\ LineItemsReturned
    /\ Len(ret[1]) = 1
    /\ ret[1][1].itemNumber = <<"2", "0">>
    /\ LET lines == splitOn(args.text, "\n")
       IN  /\ HeaderEndIndex(lines) = 10
           /\ BoundariesTaken(lines, 10) = {10, 22}
           /\ ~HasItemData(ItemData(lines, 10, LineAt(lines, 10)))

\* a quantity 12 and a SUBTOTAL line among the eleven lines of item 10 are
\* passed over, and item 20 on the twelfth line after it is kept
LinesOfBlockPassedOverSeen ==
    /\ LineItemsReturned
    /\ Len(ret[1]) = 2
    /\ LET lines == splitOn(args.text, "\n")
       IN  /\ HeaderEndIndex(lines) = 10
           /\ LineAt(lines, 12) = <<"1", "2">>
           /\ TotalMarker(LineAt(lines, 21))
           /\ BoundariesTaken(lines, 10) = {10, 22}
-----------------------------------------------------------------------------
(* The sentinel values on the two branches *)

Sentinels == {"Not found", "N/A"}

\* the request returned the result of the AI path
AIResultReturned ==
    /\ Returned
    /\ outcome.data # <<>>
    /\ outcome.data[1].processingMethod = "Azure OpenAI"

\* the positions of a sequence of values that hold a sentinel
SentinelsAmong(values) == {k \in DOMAIN values : values[k] \in Sentinels}

\* C30: sentinel handling differs by branch.  On the JSON branch every string
\* or number leaf becomes a field with confidence 0.90, also a leaf whose
\* value is the sentinel 'Not found'; only the text-parser branch drops the
\* sentinel values, so the result of an AI success holds a sentinel only in
\* fields of the JSON branch, at confidence 0.90.
C30_SentinelsByBranch ==
    AIResultReturned =>
        LET fields == outcome.data[1].keyValuePairs
            leaves == Leaves(outcome.data[1].aiResponse.entries, "")
            values == [k \in DOMAIN fields |-> fields[k].value]
        IN  IF outcome.data[1].aiResponse.json
            THEN /\ values = [k \in DOMAIN leaves |-> leaves[k].text]
                 /\ \A k \in DOMAIN fields : fields[k].confidence = 90
            ELSE /\ SentinelsAmong(values) = {}
                 /\ \A k \in DOMAIN fields : fields[k].confidence = 85
                 /\ Len(fields)
                       = Cardinality({k \in DOMAIN outcome.data[1].aiResponse.lines :
                             /\ outcome.data[1].aiResponse.lines[k].key # ""
                             /\ outcome.data[1].aiResponse.lines[k].value # ""
                             /\ outcome.data[1].aiResponse.lines[k].value \notin Sentinels})

\* the AI answered {"vendorName":"Not found","poNumber":"PO123"}: the request
\* returns Vendor Name 'Not found' with confidence 0.90
C30_Witness ==
    /\ AIResultReturned
    /\ outcome.success
    /\ outcome.data[1].aiResponse.json
    /\ outcome.data[1].keyValuePairs =
          <<[key |-> "Vendor Name", value |-> "Not found", confidence |-> 90],
            [key |-> "PO Number", value |-> "PO123", confidence |-> 90]>>

\* the text branch, with the lines 'Total - Not found' and 'Fax: N/A' dropped
SentinelLinesDroppedSeen ==
    /\ AIResultReturned
    /\ ~outcome.data[1].aiResponse.json
    /\ \E k \in DOMAIN outcome.data[1].aiResponse.lines :
          outcome.data[1].aiResponse.lines[k].value = "Not found"
    /\ \E k \in DOMAIN outcome.data[1].aiResponse.lines :
          outcome.data[1].aiResponse.lines[k].value = "N/A"
    /\ Len(outcome.data[1].keyValuePairs) = 2
====
